---- MODULE Spec2Model ----
(***************************************************************************)
(* Model of the wakavoice voyage-agent tool layer: the tool                *)
(* implementations (Amadeus flight/hotel search and booking, health        *)
(* advice, pharmacy locator, places), the dispatch table execute_tool and  *)
(* the two transport front-ends (server.py, server_v2.py).                 *)
(*                                                                         *)
(* A behaviour is one request/response cycle: Init draws the process       *)
(* environment (credentials read once at import time) and the incoming     *)
(* request; one action per entry point applies the whole handler to it and *)
(* records the result in res and the externally visible events (outbound   *)
(* HTTP calls, dataset look-ups, dispatches, tool invocations) in ev.      *)
(* Responses of external collaborators are chosen with \E in the actions   *)
(* and kept in answers.                                                    *)
(*                                                                         *)
(* Python text is a sequence of one-character strings; a JSON value is a   *)
(* record [t, s, n] with t in "null", "str", "int".                        *)
(***************************************************************************)
EXTENDS Integers, Sequences, FiniteSets, TLC

VARIABLES env, req, answers, res, ev, resp, poll, defs, desc, srv

vars == <<env, req, answers, res, ev, resp, poll, defs, desc, srv>>

(***************************************************************************)
(* Bounds                                                                  *)
(***************************************************************************)
\* longest IATA-code text drawn as an input
MaxCodeLen == 3
\* number of calendar years, starting at FirstYear, dates are drawn from
MaxYears == 1
\* longest symptom text, in words, drawn as an input
MaxWords == 2

FirstYear == 2025

(***************************************************************************)
(* Text and JSON values                                                    *)
(***************************************************************************)
RECURSIVE SeqsUpTo(_, _)
SeqsUpTo(S, n) ==
    IF n = 0 THEN {<<>>}
    ELSE LET shorter == SeqsUpTo(S, n - 1)
         IN  shorter \cup {Append(s, c) : s \in {x \in shorter : Len(x) = n - 1}, c \in S}

Null == [t |-> "null", s |-> <<>>, n |-> 0]
\* a key that is not in the arguments mapping
Absent == [t |-> "absent", s |-> <<>>, n |-> 0]
StrV(s) == [t |-> "str", s |-> s, n |-> 0]
IntV(n) == [t |-> "int", s |-> <<>>, n |-> n]

\* Python truthiness of a JSON value
Truthy(v) ==
    CASE v.t = "null" -> FALSE
      [] v.t = "str"  -> v.s # <<>>
      [] v.t = "int"  -> v.n # 0
      [] v.t = "obj"  -> v.s # <<>>
      [] OTHER        -> TRUE

\* str.upper() on one character: cased letters change, the rest is kept
UpperChar(c) ==
    CASE c = "o" -> "O"
      [] c = "u" -> "U"
      [] c = "a" -> "A"
      [] OTHER   -> c

Upper(s) == [i \in 1..Len(s) |-> UpperChar(s[i])]

\* str.strip(): drop leading and trailing whitespace
RECURSIVE LStrip(_)
LStrip(s) == IF s # <<>> /\ Head(s) = " " THEN LStrip(Tail(s)) ELSE s

RECURSIVE RStrip(_)
RStrip(s) ==
    IF s # <<>> /\ s[Len(s)] = " " THEN RStrip(SubSeq(s, 1, Len(s) - 1)) ELSE s

Strip(s) == RStrip(LStrip(s))

(***************************************************************************)
(* Dates: the text "YYYY-MM-DD" is the value of kind "date" whose n is the *)
(* number YYYYMMDD; every other text is of kind "str".                     *)
(* strptime(text, "%Y-%m-%d") accepts the texts that name a calendar day.  *)
(***************************************************************************)
IsLeap(y) == (y % 4 = 0 /\ y % 100 # 0) \/ y % 400 = 0

DaysInMonth(y, m) ==
    CASE m \in {4, 6, 9, 11} -> 30
      [] m = 2               -> IF IsLeap(y) THEN 29 ELSE 28
      [] OTHER               -> 31

DateText(y, m, d) == [t |-> "date", s |-> <<>>, n |-> y * 10000 + m * 100 + d]

\* datetime.strptime: "ok" with the day's ordinal, ValueError on a text
\* that is no calendar day, TypeError on a value that is no text
Strptime(v) ==
    CASE v.t = "date" ->
            LET y == v.n \div 10000
                m == (v.n \div 100) % 100
                d == v.n % 100
            IN  IF m \in 1..12 /\ d \in 1..DaysInMonth(y, m)
                THEN [kind |-> "ok", ord |-> (y * 12 + m) * 31 + d]
                ELSE [kind |-> "ValueError", ord |-> 0]
      [] v.t = "str"  -> [kind |-> "ValueError", ord |-> 0]
      [] OTHER        -> [kind |-> "TypeError", ord |-> 0]

(***************************************************************************)
(* Results                                                                 *)
(***************************************************************************)
NoMessage == "<no message field>"
\* no "line" member in the dict
NoLine == [route |-> "", first_departure |-> 0, last_departure |-> 0, frequency_peak |-> 0,
           frequency_offpeak |-> 0, fare |-> 0]
NoResult == [kind |-> "none", status |-> "", message |-> "", data |-> "", causes |-> <<>>, listed |-> <<>>,
             line |-> NoLine]

\* a dict returned by a tool
Ret(status, message, data) ==
    [kind |-> "return", status |-> status, message |-> message, data |-> data, causes |-> <<>>, listed |-> <<>>,
     line |-> NoLine]

\* an exception leaving the function
Raise(exc) ==
    [kind |-> "raise", status |-> "", message |-> exc, data |-> "", causes |-> <<>>, listed |-> <<>>,
     line |-> NoLine]

Out(r, e) == [res |-> r, ev |-> e]

MsgAmadeusKeys == "Cles API Amadeus manquantes. Configurez AMADEUS_API_KEY et AMADEUS_API_SECRET dans .env"
MsgIataFlight == "Les codes IATA doivent faire 3 lettres (ex: OUA, CDG, ABJ)"
MsgIataHotel == "Le code IATA de ville doit faire 3 lettres (ex: OUA, PAR, ABJ)"
MsgDateFormat == "Format de date invalide. Utilisez YYYY-MM-DD (ex: 2025-12-15)"
MsgDateOrder == "La date de depart doit etre apres la date d'arrivee"
MsgNoToken == "Impossible d'obtenir le token Amadeus. Verifiez vos credentials."

\* events: an outbound HTTP request, a look-up in a bundled dataset, a
\* dispatch by execute_tool, the invocation of a tool implementation
Http(x) == [k |-> "http", x |-> x]
Local(x) == [k |-> "local", x |-> x]
Dispatch(name) == [k |-> "dispatch", x |-> name]
Impl(name) == [k |-> "impl", x |-> name]

HttpToken == Http("POST /v1/security/oauth2/token")
HttpFlightOffers == Http("GET /v2/shopping/flight-offers")
HttpHotelList == Http("GET /v1/reference-data/locations/hotels/by-city")
HttpHotelOffers == Http("GET /v3/shopping/hotel-offers")

IsHttp(e) == e.k = "http"

(***************************************************************************)
(* Amadeus-backed tools                                                    *)
(***************************************************************************)
\* dict.get(key, default) on the arguments mapping
Get(v, default) == IF v.t = "absent" THEN default ELSE v

\* max(lo, min(n, hi)) on a JSON value: TypeError unless it is a number
Clamp(v, lo, hi) ==
    IF v.t = "int"
    THEN [kind |-> "ok", n |-> IF v.n > hi THEN hi ELSE IF v.n < lo THEN lo ELSE v.n]
    ELSE [kind |-> "TypeError", n |-> 0]

\* a check of the secret alone
SecretConfigured(e) == e.amadeus_secret

\* "if not AMADEUS_API_KEY or not AMADEUS_API_SECRET" is false
AmadeusConfigured(e) == e.amadeus_key /\ e.amadeus_secret

\* get_amadeus_token: one POST; None on a non-200 answer or an exception
TokenAnswers == {"200_token", "401", "timeout"}

get_amadeus_token(answer) ==
    [token |-> answer = "200_token", ev |-> <<HttpToken>>]

FlightAnswers == {"200_offers", "200_empty", "200_bad_price", "400_detail", "400_plain", "500", "timeout"}
MsgFlightExc == "Erreur lors de la recherche de vols: <exception>"

\* the request to /v2/shopping/flight-offers and the mapping of its answer
search_flights_offers(answer) ==
    CASE answer = "400_detail"    -> Ret("error", "Erreur Amadeus: <detail>", "")
      [] answer \in {"400_plain", "500"}
                                  -> Ret("error", "Erreur API Amadeus (code <status>)", "")
      [] answer = "200_empty"     -> Ret("success", "Aucun vol trouve de <origin> a <destination> pour le <date>", "flights=[]")
      [] answer = "200_offers"    -> Ret("success", NoMessage, "flights")
      [] OTHER                    -> Ret("error", MsgFlightExc, "")

search_flights(e, a, w) ==
    IF ~AmadeusConfigured(e) THEN Out(Ret("error", MsgAmadeusKeys, ""), <<>>)
    ELSE IF a.origin.t # "str" \/ a.destination.t # "str"
         THEN Out(Ret("error", MsgFlightExc, ""), <<>>)
    ELSE IF Len(Strip(Upper(a.origin.s))) # 3 \/ Len(Strip(Upper(a.destination.s))) # 3
         THEN Out(Ret("error", MsgIataFlight, ""), <<>>)
    ELSE IF Clamp(a.adults, 1, 9).kind # "ok" \/ Clamp(a.max_results, 1, 10).kind # "ok"
         THEN Out(Ret("error", MsgFlightExc, ""), <<>>)
    ELSE IF Strptime(a.departure_date).kind = "TypeError"
         THEN Out(Ret("error", MsgFlightExc, ""), <<>>)
    ELSE IF Strptime(a.departure_date).kind = "ValueError"
         THEN Out(Ret("error", MsgDateFormat, ""), <<>>)
    ELSE IF Truthy(a.return_date) /\ Strptime(a.return_date).kind = "TypeError"
         THEN Out(Ret("error", MsgFlightExc, ""), <<>>)
    ELSE IF Truthy(a.return_date) /\ Strptime(a.return_date).kind = "ValueError"
         THEN Out(Ret("error", MsgDateFormat, ""), <<>>)
    ELSE LET tok == get_amadeus_token(w.token)
         IN  IF ~tok.token THEN Out(Ret("error", MsgNoToken, ""), tok.ev)
             ELSE Out(search_flights_offers(w.offers), tok.ev \o <<HttpFlightOffers>>)

\* tool_flight_search.execute: defaults for the absent keys
flight_search_execute(e, args, w) ==
    search_flights(e,
        [origin         |-> Get(args.origin, StrV(<<>>)),
         destination    |-> Get(args.destination, StrV(<<>>)),
         departure_date |-> Get(args.departure_date, StrV(<<>>)),
         return_date    |-> Get(args.return_date, StrV(<<>>)),
         adults         |-> Get(args.adults, IntV(1)),
         max_results    |-> Get(args.max_results, IntV(5))],
        w)

HotelListAnswers == {"200_hotels", "200_empty", "200_no_ids", "500", "timeout"}
HotelOfferAnswers == {"200_offers", "200_empty", "200_bad_price", "400_detail", "400_plain", "500", "timeout"}
MsgHotelExc == "Erreur lors de la recherche d'hotels: <exception>"

\* the request to /v3/shopping/hotel-offers and the mapping of its answer
search_hotels_offers(answer) ==
    CASE answer = "400_detail"    -> Ret("error", "Erreur Amadeus: <detail>", "")
      [] answer \in {"400_plain", "500"}
                                  -> Ret("error", "Erreur API Amadeus (code <status>)", "")
      [] answer = "200_empty"     -> Ret("success", "Aucun hotel trouve a <city> pour <check_in> - <check_out>", "hotels=[]")
      [] answer = "200_offers"    -> Ret("success", NoMessage, "hotels")
      [] OTHER                    -> Ret("error", MsgHotelExc, "")

\* the request to the Hotel List API, then the offers of the listed hotels
search_hotels_list(w) ==
    CASE w.list = "500"        -> Out(Ret("error", "Impossible de recuperer la liste des hotels pour <city> (code <status>)", ""), <<HttpHotelList>>)
      [] w.list = "200_empty"  -> Out(Ret("success", "Aucun hotel trouve dans la ville <city>", "hotels=[]"), <<HttpHotelList>>)
      [] w.list = "200_no_ids" -> Out(Ret("error", "Aucun ID d'hotel trouve dans la liste", ""), <<HttpHotelList>>)
      [] w.list = "200_hotels" -> Out(search_hotels_offers(w.offers), <<HttpHotelList, HttpHotelOffers>>)
      [] OTHER                 -> Out(Ret("error", MsgHotelExc, ""), <<HttpHotelList>>)

\* a comparison that lets equal dates through
CheckOutBefore(check_in, check_out) == check_out.ord < check_in.ord

\* "if check_out <= check_in"
CheckOutNotAfter(check_in, check_out) == check_out.ord <= check_in.ord

search_hotels(e, a, w) ==
    IF ~AmadeusConfigured(e) THEN Out(Ret("error", MsgAmadeusKeys, ""), <<>>)
    ELSE IF a.city_code.t # "str" THEN Out(Ret("error", MsgHotelExc, ""), <<>>)
    ELSE IF Len(Strip(Upper(a.city_code.s))) # 3
         THEN Out(Ret("error", MsgIataHotel, ""), <<>>)
    ELSE IF \/ Clamp(a.adults, 1, 9).kind # "ok"
            \/ Clamp(a.rooms, 1, 9).kind # "ok"
            \/ Clamp(a.max_results, 1, 20).kind # "ok"
         THEN Out(Ret("error", MsgHotelExc, ""), <<>>)
    ELSE LET check_in == Strptime(a.check_in_date)
             check_out == Strptime(a.check_out_date)
         IN  IF check_in.kind = "TypeError" THEN Out(Ret("error", MsgHotelExc, ""), <<>>)
             ELSE IF check_in.kind = "ValueError" THEN Out(Ret("error", MsgDateFormat, ""), <<>>)
             ELSE IF check_out.kind = "TypeError" THEN Out(Ret("error", MsgHotelExc, ""), <<>>)
             ELSE IF check_out.kind = "ValueError" THEN Out(Ret("error", MsgDateFormat, ""), <<>>)
             ELSE IF CheckOutNotAfter(check_in, check_out) THEN Out(Ret("error", MsgDateOrder, ""), <<>>)
             ELSE LET tok == get_amadeus_token(w.token)
                      found == search_hotels_list(w)
                  IN  IF ~tok.token THEN Out(Ret("error", MsgNoToken, ""), tok.ev)
                      ELSE Out(found.res, tok.ev \o found.ev)

\* tool_hotel_search.execute: defaults for the absent keys
hotel_search_execute(e, args, w) ==
    search_hotels(e,
        [city_code      |-> Get(args.city_code, StrV(<<>>)),
         check_in_date  |-> Get(args.check_in_date, StrV(<<>>)),
         check_out_date |-> Get(args.check_out_date, StrV(<<>>)),
         adults         |-> Get(args.adults, IntV(1)),
         rooms          |-> Get(args.rooms, IntV(1)),
         max_results    |-> Get(args.max_results, IntV(10))],
        w)

(***************************************************************************)
(* Booking tools.  A passenger, guest or payment is a value of kind "obj"  *)
(* whose s lists, in any order, the keys that hold a non-empty value.      *)
(***************************************************************************)
ObjV(keys) == [t |-> "obj", s |-> keys, n |-> 0]

Range(s) == {s[i] : i \in 1..Len(s)}

\* "for field in required: if not d.get(field)": the first field of required
\* without a non-empty value, "" when there is none
RECURSIVE FirstMissing(_, _)
FirstMissing(required, d) ==
    IF required = <<>> THEN ""
    ELSE IF Head(required) \notin Range(d.s) THEN Head(required)
    ELSE FirstMissing(Tail(required), d)

PassengerFields == <<"first_name", "last_name", "date_of_birth", "gender", "email", "phone">>
GuestFields == <<"first_name", "last_name", "email", "phone">>
PaymentFields == <<"card_type", "card_number">>
MsgFlightBookExc == "Erreur lors de la reservation de vol: <exception>"
MsgHotelBookExc == "Erreur lors de la reservation d'hotel: <exception>"

book_flight(e, flight_offer_id, passenger, w) ==
    IF ~AmadeusConfigured(e) THEN Out(Ret("error", MsgAmadeusKeys, ""), <<>>)
    ELSE IF ~Truthy(flight_offer_id)
         THEN Out(Ret("error", "ID de vol manquant. Utilisez search_flights d'abord pour obtenir un ID de vol.", ""), <<>>)
    ELSE IF passenger.t # "obj" THEN Out(Ret("error", MsgFlightBookExc, ""), <<>>)
    ELSE IF FirstMissing(PassengerFields, passenger) # ""
         THEN Out(Ret("error", "Champ passager manquant: " \o FirstMissing(PassengerFields, passenger), ""), <<>>)
    ELSE LET tok == get_amadeus_token(w.token)
         IN  IF ~tok.token THEN Out(Ret("error", MsgNoToken, ""), tok.ev)
             ELSE IF flight_offer_id.t # "str" THEN Out(Ret("error", MsgFlightBookExc, ""), tok.ev)
             ELSE Out(Ret("ready_to_book", "Parfait <passenger> ! Votre vol est pret a etre reserve.", "booking_links"), tok.ev)

\* tool_flight_booking.execute
flight_booking_execute(e, args, w) ==
    book_flight(e, Get(args.flight_offer_id, StrV(<<>>)), Get(args.passenger, ObjV(<<>>)), w)

book_hotel(e, hotel_offer_id, guest, payment, w) ==
    IF ~AmadeusConfigured(e) THEN Out(Ret("error", MsgAmadeusKeys, ""), <<>>)
    ELSE IF ~Truthy(hotel_offer_id)
         THEN Out(Ret("error", "ID d'offre d'hotel manquant. Utilisez search_hotels d'abord pour obtenir un ID d'offre.", ""), <<>>)
    ELSE IF guest.t # "obj" THEN Out(Ret("error", MsgHotelBookExc, ""), <<>>)
    ELSE IF FirstMissing(GuestFields, guest) # ""
         THEN Out(Ret("error", "Champ client manquant: " \o FirstMissing(GuestFields, guest), ""), <<>>)
    ELSE IF payment.t # "obj" THEN Out(Ret("error", MsgHotelBookExc, ""), <<>>)
    ELSE IF FirstMissing(PaymentFields, payment) # ""
         THEN Out(Ret("error", "Champ paiement manquant: " \o FirstMissing(PaymentFields, payment), ""), <<>>)
    ELSE LET tok == get_amadeus_token(w.token)
         IN  IF ~tok.token THEN Out(Ret("error", MsgNoToken, ""), tok.ev)
             ELSE IF hotel_offer_id.t # "str" THEN Out(Ret("error", MsgHotelBookExc, ""), tok.ev)
             ELSE Out(Ret("ready_to_book", "Excellent choix <guest> ! Votre hotel a <city> est disponible.", "booking_links"), tok.ev)

\* tool_hotel_booking.execute
hotel_booking_execute(e, args, w) ==
    book_hotel(e, Get(args.hotel_offer_id, StrV(<<>>)), Get(args.guest, ObjV(<<>>)),
               Get(args.payment, ObjV(<<>>)), w)

(***************************************************************************)
(* Health advice.  A symptom text is a sequence of words; accents are      *)
(* written without diacritics.  "keyword in text" looks for the word.      *)
(***************************************************************************)
LowerWord(x) ==
    CASE x = "FIEVRE"       -> "fievre"
      [] x = "BALLONNEMENT" -> "ballonnement"
      [] x = "Bobo"         -> "bobo"
      [] x = "Ouagadougou"  -> "ouagadougou"
      [] x = "Koudougou"    -> "koudougou"
      [] x = "Banfora"      -> "banfora"
      [] x = "JEAN"         -> "jean"
      [] OTHER              -> x

Lower(s) == [i \in 1..Len(s) |-> LowerWord(s[i])]

\* a in b for texts: a is a run of consecutive words of b
Infix(a, b) == \E i \in 1..(Len(b) + 1) : i + Len(a) - 1 <= Len(b) /\ SubSeq(b, i, i + Len(a) - 1) = a

\* advice_database, in the order of its keys
AdviceKeywords == <<"ballonnement", "maux de tete", "fievre", "toux", "diarrhee">>

possible_causes(keyword) ==
    CASE keyword = "ballonnement" -> <<"Exces de gaz intestinaux", "Indigestion", "Constipation", "Syndrome de l'intestin irritable">>
      [] keyword = "maux de tete" -> <<"Tension", "Deshydratation", "Fatigue", "Stress", "Migraine">>
      [] keyword = "fievre"       -> <<"Infection virale", "Infection bacterienne", "Inflammation">>
      [] keyword = "toux"         -> <<"Rhume", "Grippe", "Allergie", "Irritation des voies respiratoires">>
      [] keyword = "diarrhee"     -> <<"Infection intestinale", "Intoxication alimentaire", "Stress">>
      [] OTHER                    -> <<>>

\* the loop without its break: the last keyword found in the text
RECURSIVE LastMatchedKeyword(_, _)
LastMatchedKeyword(keywords, text) ==
    IF keywords = <<>> THEN ""
    ELSE LET later == LastMatchedKeyword(Tail(keywords), text)
         IN  IF later # "" THEN later
             ELSE IF Infix(<<Head(keywords)>>, text) THEN Head(keywords)
             ELSE ""

\* "for keyword, advice in advice_database.items(): if keyword in
\* symptoms_lower: ... break": the first keyword found in the text
RECURSIVE MatchedKeyword(_, _)
MatchedKeyword(keywords, text) ==
    IF keywords = <<>> THEN ""
    ELSE IF Infix(<<Head(keywords)>>, text) THEN Head(keywords)
    ELSE MatchedKeyword(Tail(keywords), text)

LocalAdvice == Local("advice_database")

get_generic_health_advice(symptoms) ==
    IF symptoms.t # "str" THEN Out(Raise("AttributeError"), <<>>)
    ELSE LET matched == MatchedKeyword(AdviceKeywords, Lower(symptoms.s))
         IN  IF matched = ""
             THEN Out(Ret("success", NoMessage, "general_advice"), <<LocalAdvice>>)
             ELSE Out([Ret("success", NoMessage, "advice_database") EXCEPT !.causes = possible_causes(matched)],
                      <<LocalAdvice>>)

HttpParse == Http("POST https://api.infermedica.com/v3/parse")
HttpDiagnosis == Http("POST https://api.infermedica.com/v3/diagnosis")
ParseAnswers == {"200_mentions", "200_no_mentions", "500", "unreachable"}
DiagnosisAnswers == {"200_conditions", "200_malformed", "500", "unreachable"}

Blank(s) == \A i \in 1..Len(s) : s[i] = " "

\* the fall-back of get_health_advice: the generic advice, after the
\* events e of the primary attempt
HealthFallback(symptoms, e) ==
    LET g == get_generic_health_advice(symptoms) IN Out(g.res, e \o g.ev)

get_health_advice(e, symptoms, w) ==
    IF ~e.infermedica THEN
        \* a failure of the generic advice is caught and the generic advice
        \* is asked again, outside the try
        LET g == get_generic_health_advice(symptoms)
        IN  IF g.res.kind = "raise" THEN HealthFallback(symptoms, g.ev) ELSE g
    ELSE IF ~Truthy(symptoms)
         THEN Out(Ret("error", "Veuillez decrire vos symptomes", ""), <<>>)
    ELSE IF symptoms.t # "str" THEN HealthFallback(symptoms, <<>>)
    ELSE IF Blank(symptoms.s)
         THEN Out(Ret("error", "Veuillez decrire vos symptomes", ""), <<>>)
    ELSE IF w.parse # "200_mentions" THEN HealthFallback(symptoms, <<HttpParse>>)
    ELSE IF w.diagnosis # "200_conditions" THEN HealthFallback(symptoms, <<HttpParse, HttpDiagnosis>>)
    ELSE Out(Ret("success", NoMessage, "possible_conditions"), <<HttpParse, HttpDiagnosis>>)

\* tool_health_advice.execute
health_advice_execute(e, args, w) ==
    get_health_advice(e, Get(args.symptoms, StrV(<<>>)), w)

(***************************************************************************)
(* Pharmacy locator.  A city text is a sequence of pieces, so that         *)
(* "Ouagadougou" is <<"Ouaga", "dougou">> and str.replace("Ouaga", ...)    *)
(* finds the piece "Ouaga" in it.                                          *)
(***************************************************************************)
\* str.replace(old, new) for a one-piece old
RECURSIVE Replace(_, _, _)
Replace(s, old, new) ==
    IF s = <<>> THEN <<>>
    ELSE (IF Head(s) = old THEN new ELSE <<Head(s)>>) \o Replace(Tail(s), old, new)

Ouagadougou == <<"Ouaga", "dougou">>
BoboDioulasso == <<"Bobo", "-Dioulasso">>
FadaNGourma == <<"Fada", " N'Gourma">>

\* the keys of PHARMACIES_DE_GARDE and of BURKINA_CITIES
PharmacyCities == {Ouagadougou, BoboDioulasso, <<"Koudougou">>, <<"Ouahigouya">>, <<"Banfora">>, FadaNGourma}

NormalizeCity(city_name) ==
    Replace(Replace(Replace(city_name, "Ouaga", Ouagadougou), "Bobo", BoboDioulasso), "Fada", FadaNGourma)

HttpAzurePoi == Http("GET https://atlas.microsoft.com/search/poi/json")
AzurePoiAnswers == {"200_results", "200_empty", "500", "timeout"}

\* search_pharmacies_azure_maps: found is whether the list returned is
\* non-empty
search_pharmacies_azure_maps(e, city_name, w) ==
    IF ~e.azure_maps \/ city_name.t # "str" THEN [found |-> FALSE, ev |-> <<>>]
    ELSE [found |-> w.poi = "200_results", ev |-> <<HttpAzurePoi>>]

\* get_local_pharmacies: city is the key of PHARMACIES_DE_GARDE whose list
\* is returned
get_local_pharmacies(city_name) ==
    IF city_name.t # "str" THEN [kind |-> "raise", city |-> <<>>]
    ELSE LET city_normalized == NormalizeCity(city_name.s)
         IN  [kind |-> "ok",
              city |-> IF city_normalized \notin PharmacyCities THEN Ouagadougou ELSE city_normalized]

LocalPharmacies == Local("PHARMACIES_DE_GARDE")
MsgPharmacyExc == "Erreur lors de la recherche de pharmacies: <exception>"

\* tool_pharmacy_locator.execute; data names the source of the list
pharmacy_locator_execute(e, args, w) ==
    LET city == Get(args.city, StrV(Ouagadougou))
        azure == search_pharmacies_azure_maps(e, city, w)
        local == get_local_pharmacies(city)
    IN  IF azure.found
        THEN Out(Ret("success", "Pharmacies de garde a <city>: <pharmacies>", "azure_maps"), azure.ev)
        ELSE IF local.kind = "raise"
             THEN Out(Ret("error", MsgPharmacyExc, ""), azure.ev)
             ELSE Out(Ret("success", "Pharmacies de garde a <city>: <pharmacies>", "PHARMACIES_DE_GARDE"),
                      azure.ev \o <<LocalPharmacies>>)

(***************************************************************************)
(* Places                                                                  *)
(***************************************************************************)
HttpAzureFuzzy == Http("GET https://atlas.microsoft.com/search/fuzzy/json")
AzureFuzzyAnswers == {"200_results", "200_empty", "500", "timeout"}

\* search_places_azure_maps: found is whether the list returned is
\* non-empty
search_places_azure_maps(e, w) ==
    IF ~e.azure_maps THEN [found |-> FALSE, ev |-> <<>>]
    ELSE [found |-> w.fuzzy = "200_results", ev |-> <<HttpAzureFuzzy>>]

\* min(int(value), hi): the limit sent to the provider; the text of the
\* inputs is no number
MinInt(v, hi) ==
    CASE v.t = "int" -> [kind |-> "ok", n |-> IF v.n > hi THEN hi ELSE v.n]
      [] v.t = "str" -> [kind |-> "ValueError", n |-> 0]
      [] OTHER       -> [kind |-> "TypeError", n |-> 0]

\* tool_places.execute
places_execute(e, args, w) ==
    LET query == Get(args.query, StrV(<<>>))
        max_results == Get(args.max_results, IntV(5))
        places == search_places_azure_maps(e, w)
    IN  \* int(...) of the value, before the try
        IF max_results.t = "str" THEN Out(Raise("ValueError"), <<>>)
        ELSE IF max_results.t # "int" THEN Out(Raise("TypeError"), <<>>)
        ELSE IF ~Truthy(query)
             THEN Out(Ret("error", "Veuillez specifier un type de lieu a rechercher", ""), <<>>)
        ELSE IF ~places.found
             THEN Out(Ret("no_results", "Aucun lieu trouve pour '<query>' a <location>. Essayez une autre recherche.", ""), places.ev)
             ELSE Out(Ret("success", "<n> lieu(x) trouve(s) pour '<query>' a <location>", "places"), places.ev)

(***************************************************************************)
(* CV generation                                                           *)
(***************************************************************************)
HistoryAnswers == {"messages", "empty", "exception"}
GenerationAnswers == {"markdown", "exception"}
WordAnswers == {"file", "none"}
EmailAnswers == {"success", "error"}

create_cv(w) ==
    CASE w.history = "exception"    -> Ret("error", "Erreur lors de la generation du CV: <exception>", "")
      [] w.history = "empty"        -> Ret("error", "Aucun historique trouve pour l'appel <call_id>.", "")
      [] w.generation = "exception" -> Ret("error", "Echec de la generation du CV par l'IA: <exception>", "details")
      [] w.word = "none"            -> Ret("partial_success", "CV genere mais echec de la conversion Word.", "cv_preview")
      [] w.email = "success"        -> Ret("success", "CV genere et envoye avec succes a <email>.", "cv_preview")
      [] OTHER                      -> Ret("partial_success", "CV genere mais echec de l'envoi email: <message>", "cv_preview")

\* tool_cv.execute
cv_execute(args, w) ==
    IF ~Truthy(Get(args.call_id, StrV(<<>>)))
    THEN Out(Ret("error", "call_id manquant. Impossible de recuperer l'historique de conversation.", ""), <<>>)
    ELSE IF ~Truthy(Get(args.email, StrV(<<>>)))
    THEN Out(Ret("error", "Adresse email manquante.", ""), <<>>)
    ELSE Out(create_cv(w), <<>>)

(***************************************************************************)
(* Bus schedule.  A line text is a sequence of words.  A time of day is    *)
(* counted in half minutes since midnight: HH:MM is an even number, an odd *)
(* number is a moment of the clock within the minute.                      *)
(***************************************************************************)
HM(h, m) == 2 * (60 * h + m)
\* the mark "(demain)" on a departure
Tomorrow == HM(24, 0)

\* the keys of SOTRACO_LINES
SotracoLines == {<<"1">>, <<"2">>, <<"3">>, <<"4">>, <<"5">>}
SOTRACO_LINES(key) ==
    CASE key = <<"1">> -> [route |-> "Gare Routiere <-> Ouaga 2000", first_departure |-> HM(5, 30),
                           last_departure |-> HM(22, 0), frequency_peak |-> 15, frequency_offpeak |-> 30, fare |-> 200]
      [] key = <<"2">> -> [route |-> "Zone du Bois <-> Patte d'Oie", first_departure |-> HM(5, 45),
                           last_departure |-> HM(21, 30), frequency_peak |-> 20, frequency_offpeak |-> 40, fare |-> 200]
      [] key = <<"3">> -> [route |-> "Aeroport <-> Universite de Ouagadougou", first_departure |-> HM(6, 0),
                           last_departure |-> HM(20, 0), frequency_peak |-> 30, frequency_offpeak |-> 60, fare |-> 250]
      [] key = <<"4">> -> [route |-> "Tampouy <-> Gounghin", first_departure |-> HM(5, 30),
                           last_departure |-> HM(21, 0), frequency_peak |-> 25, frequency_offpeak |-> 45, fare |-> 200]
      [] OTHER         -> [route |-> "Pissy <-> CHU Yalgado", first_departure |-> HM(6, 0),
                           last_departure |-> HM(21, 30), frequency_peak |-> 20, frequency_offpeak |-> 35, fare |-> 200]
\* the keys of INTERURBAN_LINES, in order
InterurbanLines == <<(<<"Ouagadougou", "-", "Bobo">>), (<<"Ouagadougou", "-", "Koudougou">>), (<<"Ouagadougou", "-", "Banfora">>)>>
MsgBusExc == "Erreur lors de la recherche d'horaires: <exception>"
MsgBusNotFound == "Ligne '<line_number>' non trouvee. Utilisez 'all' pour voir toutes les lignes disponibles."

\* datetime.now(): every quarter of an hour, on the minute and within it
Clock == {HM(h, m) + f : h \in 0..23, m \in {0, 15, 30, 45}, f \in {0, 1}}

get_current_time_category(now) ==
    IF (HM(6, 0) <= now /\ now <= HM(9, 0)) \/ (HM(16, 0) <= now /\ now <= HM(19, 0))
    THEN "peak" ELSE "offpeak"

\* current.replace(hour=current.hour, minute=current.minute + frequency_min)
\* raises ValueError unless the new minute is in 0..59
MinuteInRange(current, frequency_min) == ((current \div 2) % 60) + frequency_min <= 59

Departures(list) == [kind |-> "ok", list |-> list]
DeparturesError == [kind |-> "ValueError", list |-> <<>>]

\* the loop taken before the first departure, with n iterations left
RECURSIVE FirstDepartures(_, _, _, _, _)
FirstDepartures(current, last_time, frequency_min, n, departures) ==
    IF n = 0 THEN Departures(departures)
    ELSE IF ~MinuteInRange(current, frequency_min) THEN DeparturesError
    ELSE IF current + 2 * frequency_min > last_time THEN Departures(Append(departures, current))
    ELSE FirstDepartures(current + 2 * frequency_min, last_time, frequency_min, n - 1, Append(departures, current))

\* the loop taken between the first and the last departure
RECURSIVE NextDepartures(_, _, _, _, _, _)
NextDepartures(current, current_time, last_time, frequency_min, count, departures) ==
    IF current > last_time THEN Departures(departures)
    ELSE IF current >= current_time /\ Len(departures) + 1 >= count
    THEN Departures(Append(departures, current))
    ELSE IF ~MinuteInRange(current, frequency_min) THEN DeparturesError
    ELSE NextDepartures(current + 2 * frequency_min, current_time, last_time, frequency_min, count,
                        IF current >= current_time THEN Append(departures, current) ELSE departures)

calculate_next_departures(now, first_dep, last_dep, frequency_min, count) ==
    IF now > last_dep THEN Departures(<<first_dep + Tomorrow>>)
    ELSE IF now < first_dep THEN FirstDepartures(first_dep, last_dep, frequency_min, count, <<>>)
    ELSE LET found == NextDepartures(first_dep, now, last_dep, frequency_min, count, <<>>)
         IN  IF found = Departures(<<>>) THEN Departures(<<first_dep + Tomorrow>>) ELSE found

IsText(v, s) == v.t = "str" /\ v.s = s

\* the "urban_line" branch of execute, for a key of SOTRACO_LINES
urban_line(key, now) ==
    LET line == SOTRACO_LINES(key)
        frequency == IF get_current_time_category(now) = "peak" THEN line.frequency_peak
                     ELSE line.frequency_offpeak
        next_buses == calculate_next_departures(now, line.first_departure, line.last_departure, frequency, 3)
    IN  IF next_buses.kind = "ValueError" THEN Ret("error", MsgBusExc, "")
        ELSE [Ret("success", "<line> - SOTRACO", "urban_line") EXCEPT !.line = line, !.listed = next_buses.list]

\* tool_bus_schedule.execute
bus_schedule_execute(args, w) ==
    LET line_number == Get(args.line_number, StrV(<<"all">>))
        transport_type == Get(args.type, StrV(<<"urban">>))
        urban == IsText(transport_type, <<"urban">>) \/ IsText(transport_type, <<"all">>)
        interurban == IsText(transport_type, <<"interurban">>) \/ IsText(transport_type, <<"all">>)
    IN  IF urban /\ IsText(line_number, <<"all">>)
        THEN Ret("success", "LIGNES SOTRACO OUAGADOUGOU: <lines>", "urban_all")
        ELSE IF urban /\ line_number.t = "str" /\ line_number.s \in SotracoLines
        THEN urban_line(line_number.s, w.now)
        ELSE IF interurban /\ IsText(line_number, <<"all">>)
        THEN Ret("success", "LIGNES INTER-URBAINES: <lines>", "interurban_all")
        ELSE IF interurban /\ line_number.t # "str"
        THEN Ret("error", MsgBusExc, "")
        ELSE IF interurban /\ \E i \in 1..Len(InterurbanLines) : Infix(Lower(line_number.s), Lower(InterurbanLines[i]))
        THEN Ret("success", "<route>", "interurban_line")
        ELSE Ret("error", MsgBusNotFound, "")

(***************************************************************************)
(* Dispatch table                                                          *)
(***************************************************************************)
\* the keys of tool_map, in order
ToolMapKeys ==
    <<"search_web", "send_email", "get_weather_forecast", "create_cv", "convert_currency",
      "search_flights", "search_hotels", "book_flight", "book_hotel", "search_exercises",
      "search_dog_breeds", "search_knowledge_base", "get_health_advice", "get_news",
      "search_places", "translate_text", "calculate", "end_conversation", "get_prayer_times",
      "find_pharmacy", "estimate_taxi_fare", "get_bus_schedule", "get_school_info",
      "get_government_service_info", "calculate_tax", "get_next_instruction",
      "schedule_callback", "send_confirmation_email", "send_sms_disconnection",
      "send_sms_payment_promise", "send_sms_extension_confirm", "generate_document",
      "analyze_document", "create_agent_config", "list_azure_voices">>

ToolNames == Range(ToolMapKeys)

\* the arguments of a call: a mapping, or a value that is no mapping
Args(kv) == [t |-> "map", kv |-> kv]
NullArgs == [t |-> "null", kv |-> <<>>]
ListArgs == [t |-> "list", kv |-> <<>>]
\* no "arguments" member in params
AbsentArgs == [t |-> "absent", kv |-> <<>>]

\* the tools whose execute is modelled above
ModelledTools ==
    {"search_flights", "search_hotels", "book_flight", "book_hotel", "get_health_advice",
     "find_pharmacy", "search_places", "create_cv", "get_bus_schedule"}

\* the outcome of a tool that is not modelled: what it returns or raises
OpaqueOutcomes == {"success", "error", "raise"}

\* <module>.execute(arguments)
tool_execute(name, e, args, w) ==
    IF args.t # "map" THEN Out(Raise("AttributeError"), <<>>)
    ELSE CASE name = "search_flights"    -> flight_search_execute(e, args.kv, w)
           [] name = "search_hotels"     -> hotel_search_execute(e, args.kv, w)
           [] name = "book_flight"       -> flight_booking_execute(e, args.kv, w)
           [] name = "book_hotel"        -> hotel_booking_execute(e, args.kv, w)
           [] name = "get_health_advice" -> health_advice_execute(e, args.kv, w)
           [] name = "find_pharmacy"     -> pharmacy_locator_execute(e, args.kv, w)
           [] name = "search_places"     -> places_execute(e, args.kv, w)
           [] name = "create_cv"         -> cv_execute(args.kv, w)
           [] name = "get_bus_schedule"  -> Out(bus_schedule_execute(args.kv, w), <<>>)
           [] OTHER ->
                IF w.opaque = "raise" THEN Out(Raise("Exception"), <<>>)
                ELSE Out(Ret(w.opaque, "<message>", "<payload>"), <<>>)

MsgExecuteExc == "Erreur lors de l'execution de l'outil '<tool_name>': <exception>"

\* the special cases of execute_tool and the call of execute, inside the try
execute_tool_try(tool_name, e, args, w) ==
    IF tool_name = "generate_document"
    THEN IF w.opaque = "raise" THEN Out(Ret("error", MsgExecuteExc, ""), <<Impl(tool_name)>>)
         ELSE Out(Ret("success", NoMessage, "result"), <<Impl(tool_name)>>)
    ELSE IF tool_name = "analyze_document"
    THEN IF args.t # "map" THEN Out(Ret("error", MsgExecuteExc, ""), <<>>)
         ELSE IF w.opaque = "raise" THEN Out(Ret("error", MsgExecuteExc, ""), <<Impl(tool_name)>>)
         ELSE Out(Ret("success", NoMessage, "result"), <<Impl(tool_name)>>)
    ELSE LET out == tool_execute(tool_name, e, args, w)
         IN  IF out.res.kind = "raise"
             THEN Out(Ret("error", MsgExecuteExc, ""), <<Impl(tool_name)>> \o out.ev)
             ELSE Out(out.res, <<Impl(tool_name)>> \o out.ev)

execute_tool(tool_name, e, args, w) ==
    \* the imports at the head of the function
    IF ~e.modules THEN Out(Raise("ImportError"), <<Dispatch(tool_name)>>)
    ELSE IF tool_name \notin ToolNames
    THEN Out([Ret("error", "Outil '<tool_name>' non trouve. Outils disponibles: <listed>", "")
                 EXCEPT !.listed = ToolMapKeys],
             <<Dispatch(tool_name)>>)
    ELSE LET out == execute_tool_try(tool_name, e, args, w)
         IN  Out(out.res, <<Dispatch(tool_name)>> \o out.ev)

(***************************************************************************)
(* Transport front-ends.  The five handlers of server.py and server_v2.py  *)
(* have the same bodies; kv holds the keyword arguments of the call and    *)
(* kv.extra tells whether it has a key the handler does not declare.       *)
(***************************************************************************)
RegisteredTools == {"search_flights", "book_flight", "search_hotels", "book_hotel", "get_bus_schedule"}

\* the parameters without a default, per handler
RequiredParams(name) ==
    CASE name = "search_flights" -> {"origin", "destination", "departure_date"}
      [] name = "search_hotels"  -> {"city_code", "check_in_date", "check_out_date"}
      [] name = "book_flight"    -> {"flight_offer_id", "passenger_first_name", "passenger_last_name",
                                     "passenger_email", "passenger_phone", "passenger_date_of_birth"}
      [] name = "book_hotel"     -> {"hotel_offer_id", "guest_first_name", "guest_last_name",
                                     "guest_email", "guest_phone"}
      [] OTHER                   -> {}

\* "**{}": no keyword argument at all
EmptyKv(name) ==
    CASE name = "search_flights" ->
            [origin |-> Absent, destination |-> Absent, departure_date |-> Absent, return_date |-> Absent,
             adults |-> Absent, max_results |-> Absent, extra |-> FALSE]
      [] name = "search_hotels" ->
            [city_code |-> Absent, check_in_date |-> Absent, check_out_date |-> Absent, adults |-> Absent,
             rooms |-> Absent, hotel_name |-> Absent, max_results |-> Absent, extra |-> FALSE]
      [] name = "book_flight" ->
            [flight_offer_id |-> Absent, passenger_first_name |-> Absent, passenger_last_name |-> Absent,
             passenger_email |-> Absent, passenger_phone |-> Absent, passenger_date_of_birth |-> Absent,
             passenger_gender |-> Absent, passenger_document_number |-> Absent, extra |-> FALSE]
      [] name = "book_hotel" ->
            [hotel_offer_id |-> Absent, guest_first_name |-> Absent, guest_last_name |-> Absent,
             guest_email |-> Absent, guest_phone |-> Absent, card_type |-> Absent, card_number |-> Absent,
             extra |-> FALSE]
      [] OTHER ->
            [line_number |-> Absent, from_city |-> Absent, to_city |-> Absent, extra |-> FALSE]

\* binding of "handler(**arguments)" to the signature
Binds(name, kv) == ~kv.extra /\ \A k \in RequiredParams(name) : kv[k].t # "absent"

\* the keys of a dict literal whose value is non-empty
NonEmptyKeys(keys, value) == SelectSeq(keys, LAMBDA k : Truthy(value[k]))

handler_search_flights(e, kv, w) ==
    LET out == search_flights(e,
                   [origin         |-> kv.origin,
                    destination    |-> kv.destination,
                    departure_date |-> kv.departure_date,
                    return_date    |-> Get(kv.return_date, Null),
                    adults         |-> Get(kv.adults, IntV(1)),
                    max_results    |-> Get(kv.max_results, IntV(5))],
                   w)
    IN  Out(out.res, <<Impl("search_flights")>> \o out.ev)

\* search_hotels of the tool module has no hotel_name parameter
handler_search_hotels(e, kv, w) == Out(Raise("TypeError"), <<>>)

handler_book_flight(e, kv, w) ==
    LET value == [first_name      |-> kv.passenger_first_name,
                  last_name       |-> kv.passenger_last_name,
                  email           |-> kv.passenger_email,
                  phone           |-> kv.passenger_phone,
                  date_of_birth   |-> kv.passenger_date_of_birth,
                  gender          |-> Get(kv.passenger_gender, StrV(<<"MALE">>)),
                  document_number |-> Get(kv.passenger_document_number, Null)]
        out == book_flight(e, kv.flight_offer_id, ObjV(NonEmptyKeys(PassengerFields, value)), w)
    IN  Out(out.res, <<Impl("book_flight")>> \o out.ev)

handler_book_hotel(e, kv, w) ==
    LET guest == [first_name |-> kv.guest_first_name,
                  last_name  |-> kv.guest_last_name,
                  email      |-> kv.guest_email,
                  phone      |-> kv.guest_phone]
        payment == [card_type   |-> Get(kv.card_type, StrV(<<"VISA">>)),
                    card_number |-> Get(kv.card_number, Null)]
        out == book_hotel(e, kv.hotel_offer_id, ObjV(NonEmptyKeys(GuestFields, guest)),
                          ObjV(NonEmptyKeys(PaymentFields, payment)), w)
    IN  Out(out.res, <<Impl("book_hotel")>> \o out.ev)

handler_get_bus_schedule(e, kv, w) ==
    Out(bus_schedule_execute([line_number |-> Get(kv.line_number, Null), type |-> Absent], w),
        <<Impl("get_bus_schedule")>>)

\* the call of a registered handler with the keyword arguments kv
CallHandler(name, e, kv, w) ==
    IF ~Binds(name, kv) THEN Out(Raise("TypeError"), <<>>)
    ELSE CASE name = "search_flights" -> handler_search_flights(e, kv, w)
           [] name = "search_hotels"  -> handler_search_hotels(e, kv, w)
           [] name = "book_flight"    -> handler_book_flight(e, kv, w)
           [] name = "book_hotel"     -> handler_book_hotel(e, kv, w)
           [] OTHER                   -> handler_get_bus_schedule(e, kv, w)

(***************************************************************************)
(* server_v2.py: JSON-RPC 2.0 over POST /mcp                               *)
(***************************************************************************)
NoResp == [kind |-> "none", id |-> Null, code |-> 0, result |-> "", content |-> <<>>]
\* a JSON-RPC response with a result member
RpcResult(id, result, content) ==
    [kind |-> "jsonrpc", id |-> id, code |-> 0, result |-> result, content |-> content]
\* a JSON-RPC response with an error member
RpcError(id, code) == [kind |-> "jsonrpc", id |-> id, code |-> code, result |-> "", content |-> <<>>]
\* an exception left the view function: Flask answers 500 with an HTML page
Crash == [kind |-> "crash", id |-> Null, code |-> 500, result |-> "", content |-> <<>>]

\* json.dumps(result, ensure_ascii=False, default=str) of a tool's dict:
\* the text of its members
JsonDumps(r) ==
    <<"{", "status", r.status>>
    \o (IF r.message = NoMessage THEN <<>> ELSE <<"message", r.message>>)
    \o (IF r.data = "" THEN <<>> ELSE <<r.data>>)
    \o r.causes \o <<"}">>

TextItem(text) == [type |-> "text", text |-> text]

Resp(rp, r, e) == [resp |-> rp, res |-> r, ev |-> e]

ToolsCall(e, data, w) ==
    IF data.params \in {"null", "list"} THEN Resp(Crash, NoResult, <<>>)
    ELSE LET tool_name == IF data.params = "absent" THEN Null ELSE Get(data.name, Null)
             arguments == IF data.params = "absent" THEN AbsentArgs ELSE data.arguments
         IN  IF tool_name.t = "list" THEN Resp(Crash, NoResult, <<>>)
             ELSE IF tool_name.t # "str" \/ Len(tool_name.s) # 1 \/ tool_name.s[1] \notin RegisteredTools
             THEN Resp(RpcError(data.id, -32601), NoResult, <<>>)
             ELSE IF arguments.t \notin {"map", "absent"}
             THEN Resp(RpcError(data.id, -32603), NoResult, <<>>)
             ELSE LET kv == IF arguments.t = "absent" THEN EmptyKv(tool_name.s[1]) ELSE arguments.kv
                      out == CallHandler(tool_name.s[1], e, kv, w)
                  IN  IF out.res.kind = "raise"
                      THEN Resp(RpcError(data.id, -32603), out.res, out.ev)
                      ELSE Resp(RpcResult(data.id, "content", <<TextItem(JsonDumps(out.res))>>),
                                out.res, out.ev)

handle_mcp_request(e, data, w) ==
    IF data.body = "empty" THEN Resp(RpcError(Null, -32700), NoResult, <<>>)
    ELSE IF data.body # "object" THEN Resp(Crash, NoResult, <<>>)
    ELSE IF data.method = "initialize" THEN Resp(RpcResult(data.id, "initialize", <<>>), NoResult, <<>>)
    ELSE IF data.method = "tools/list" THEN Resp(RpcResult(data.id, "tools", <<>>), NoResult, <<>>)
    ELSE IF data.method = "tools/call" THEN ToolsCall(e, data, w)
    ELSE Resp(RpcError(data.id, -32601), NoResult, <<>>)

(***************************************************************************)
(* server.py: the handlers registered with FastMCP.  The framework binds   *)
(* the arguments to the signature before it calls the handler.             *)
(***************************************************************************)
fastmcp_call(name, e, kv, w) ==
    \* the framework answers a call it cannot bind with its own error
    IF name \notin RegisteredTools \/ ~Binds(name, kv) THEN Out(Raise("ToolError"), <<>>)
    ELSE CallHandler(name, e, kv, w)

(***************************************************************************)
(* Environment and answers of the external collaborators                   *)
(***************************************************************************)
\* every credential configured, every tool module importable
FullEnv == [amadeus_key |-> TRUE, amadeus_secret |-> TRUE, infermedica |-> TRUE, azure_maps |-> TRUE, modules |-> TRUE,
            acs_connection |-> TRUE, acs_sender |-> TRUE]

\* every collaborator answers with data
World == [token |-> "200_token", offers |-> "200_offers", list |-> "200_hotels",
          parse |-> "200_mentions", diagnosis |-> "200_conditions", poi |-> "200_results",
          fuzzy |-> "200_results", history |-> "messages", generation |-> "markdown",
          word |-> "file", email |-> "success", now |-> HM(12, 0), opaque |-> "success",
          begin_send |-> "poller"]

\* before the call no collaborator has answered
NoAnswers == [k \in DOMAIN World |-> IF k = "now" THEN 0 ELSE "none"]

\* the answers the collaborators of a tool can give
Worlds(name) ==
    CASE name = "search_flights" ->
            {[World EXCEPT !.token = t, !.offers = o] : t \in TokenAnswers, o \in FlightAnswers}
      [] name = "search_hotels" ->
            {[World EXCEPT !.token = t, !.list = l, !.offers = o] :
                t \in TokenAnswers, l \in HotelListAnswers, o \in HotelOfferAnswers}
      [] name \in {"book_flight", "book_hotel"} -> {[World EXCEPT !.token = t] : t \in TokenAnswers}
      [] name = "get_health_advice" ->
            {[World EXCEPT !.parse = q, !.diagnosis = d] : q \in ParseAnswers, d \in DiagnosisAnswers}
      [] name = "find_pharmacy" -> {[World EXCEPT !.poi = a] : a \in AzurePoiAnswers}
      [] name = "search_places" -> {[World EXCEPT !.fuzzy = a] : a \in AzureFuzzyAnswers}
      [] name = "create_cv" ->
            {[World EXCEPT !.history = h, !.generation = g, !.word = d, !.email = m] :
                h \in HistoryAnswers, g \in GenerationAnswers, d \in WordAnswers, m \in EmailAnswers}
      [] name = "get_bus_schedule" -> {[World EXCEPT !.now = t] : t \in Clock}
      [] OTHER -> {[World EXCEPT !.opaque = o] : o \in OpaqueOutcomes}

(***************************************************************************)
(* Inputs                                                                  *)
(***************************************************************************)
OUA == <<"O", "U", "A">>
CDG == <<"C", "D", "G">>

\* a lower-case letter, a digit, a blank
CodeValues ==
    {StrV(s) : s \in SeqsUpTo({"o", "1", " "}, MaxCodeLen) \cup {OUA, CDG, <<"o", "u">>}}
    \cup {Null, IntV(226), Absent}
SampleCodes == {StrV(CDG), StrV(<<"o", "u">>), StrV(<<"1", "1", "1">>)}

DateValues ==
    {DateText(y, m, d) : y \in FirstYear..(FirstYear + MaxYears - 1), m \in {2, 12, 13}, d \in {15, 29, 31}}
    \cup {StrV(<<>>), StrV(<<"15/12/2025">>), Null, Absent}
SampleDates == {<<DateText(2025, 12, 15), DateText(2025, 12, 29)>>,
                <<DateText(2025, 12, 15), DateText(2025, 12, 15)>>,
                <<DateText(2025, 12, 29), DateText(2025, 2, 15)>>}

Counts == {IntV(1), IntV(0), IntV(12), Null, Absent}

FlightKv == [origin |-> StrV(OUA), destination |-> StrV(CDG), departure_date |-> DateText(2025, 12, 15),
             return_date |-> Absent, adults |-> Absent, max_results |-> Absent]
FlightKvs ==
    {[FlightKv EXCEPT !.origin = o, !.destination = d] : o \in CodeValues, d \in SampleCodes}
    \cup {[FlightKv EXCEPT !.origin = o, !.destination = d] : o \in SampleCodes, d \in CodeValues}
    \cup {[FlightKv EXCEPT !.departure_date = x, !.return_date = y] : x \in DateValues, y \in DateValues}
    \cup {[FlightKv EXCEPT !.adults = a, !.max_results = m] : a \in Counts, m \in Counts}

HotelKv == [city_code |-> StrV(OUA), check_in_date |-> DateText(2025, 12, 15),
            check_out_date |-> DateText(2025, 12, 29), adults |-> Absent, rooms |-> Absent,
            max_results |-> Absent]
HotelKvs ==
    {[HotelKv EXCEPT !.city_code = c, !.check_in_date = p[1], !.check_out_date = p[2]] :
        c \in CodeValues, p \in SampleDates}
    \cup {[HotelKv EXCEPT !.city_code = c, !.check_in_date = x, !.check_out_date = y] :
        c \in {StrV(OUA), StrV(<<"o", "u">>)}, x \in DateValues, y \in DateValues}
    \cup {[HotelKv EXCEPT !.adults = a, !.rooms = r, !.max_results = m] :
        a \in Counts, r \in {IntV(1), Null}, m \in Counts}

\* the dicts whose non-empty keys are a subset of keys, and values that are
\* no dict
Objects(keys) ==
    {ObjV(SelectSeq(keys, LAMBDA k : k \in S)) : S \in SUBSET Range(keys)}
    \cup {Null, StrV(<<"Jean Traore">>), Absent}

OfferIds == {StrV(<<"flight", "12345", "OUA", "CDG", "2025-12-15">>), StrV(<<>>), Null, IntV(12345), Absent}

\* the arguments drawn for a tool's execute
ToolKvs(name) ==
    CASE name = "search_flights"    -> FlightKvs
      [] name = "search_hotels"     -> HotelKvs
      [] name = "book_flight"       -> [flight_offer_id : OfferIds, passenger : Objects(PassengerFields)]
      [] name = "book_hotel"        ->
            [hotel_offer_id : OfferIds, guest : Objects(GuestFields), payment : Objects(PaymentFields)]
      [] name = "get_health_advice" ->
            [symptoms : {StrV(s) : s \in SeqsUpTo({"fievre", "FIEVRE", "ballonnement", "BALLONNEMENT",
                                                    "maux de tete", "toux", "fatigue", " "}, MaxWords)}
                        \cup {Null, IntV(39), Absent}]
      [] name = "find_pharmacy"     ->
            [city : {StrV(s) : s \in PharmacyCities \cup {<<"Ouaga">>, <<"Bobo">>, <<"Fada">>, <<"Paris">>, <<>>}}
                    \cup {Null, IntV(1), Absent}]
      [] name = "search_places"     ->
            [query : {StrV(<<"restaurant">>), StrV(<<>>), Null, Absent},
             max_results : Counts \cup {StrV(<<"dix">>)}]
      [] name = "create_cv"         ->
            [call_id : {StrV(<<"call-1">>), StrV(<<>>), Absent},
             email : {StrV(<<"jean@example.com">>), StrV(<<>>), Absent}]
      [] OTHER                      ->
            [line_number : {StrV(s) : s \in SotracoLines \cup {<<"9">>, <<"all">>, <<"Bobo">>, <<"banfora">>, <<>>}}
                           \cup {Null, Absent},
             type : {StrV(<<"urban">>), StrV(<<"interurban">>), StrV(<<"all">>), StrV(<<"metro">>), Absent}]

\* the environments in which a tool is called: the credentials it reads
ToolEnvs(name) ==
    CASE name \in {"search_flights", "search_hotels", "book_flight", "book_hotel"} ->
            {[FullEnv EXCEPT !.amadeus_key = k, !.amadeus_secret = x] : k \in BOOLEAN, x \in BOOLEAN}
      [] name = "get_health_advice" -> {[FullEnv EXCEPT !.infermedica = k] : k \in BOOLEAN}
      [] name \in {"find_pharmacy", "search_places"} -> {[FullEnv EXCEPT !.azure_maps = k] : k \in BOOLEAN}
      [] OTHER -> {FullEnv}

\* a direct call of <module>.execute with an arguments mapping
ExecuteRequests ==
    UNION {{[op |-> "execute", tool |-> name, args |-> a] :
                a \in {Args(kv) : kv \in ToolKvs(name)}} : name \in ModelledTools}

(***************************************************************************)
(* Calls of the tools                                                      *)
(***************************************************************************)
Pending == res = NoResult /\ resp = NoResp

\* the state of the operations that run in several steps, which a single
\* call leaves alone
NoPoll == [pc |-> "idle", elapsed |-> 0, operation |-> "none", email |-> Null, message |-> Null]
NoDefs == [pc |-> "idle", raw |-> <<>>, formatted |-> <<>>, again |-> <<>>]
NoDesc == [pc |-> "idle", text |-> <<>>, max_length |-> 0, result |-> <<>>]
NoServer == [started |-> FALSE]
\* the variables of a call and of its answer
call == <<env, req, answers, res, ev, resp>>
aside == <<poll, defs, desc, srv>>
Quiet == poll = NoPoll /\ defs = NoDefs /\ desc = NoDesc /\ srv = NoServer

Called(op, tool) == Pending /\ req.op = op /\ req.tool = tool

Return(out, w) == res' = out.res /\ ev' = out.ev /\ answers' = w /\ UNCHANGED <<env, req, resp, aside>>

ExecuteFlightSearch ==
    /\ Called("execute", "search_flights")
    /\ \E w \in Worlds(req.tool) : Return(tool_execute(req.tool, env, req.args, w), w)

ExecuteHotelSearch ==
    /\ Called("execute", "search_hotels")
    /\ \E w \in Worlds(req.tool) : Return(tool_execute(req.tool, env, req.args, w), w)

ExecuteFlightBooking ==
    /\ Called("execute", "book_flight")
    /\ \E w \in Worlds(req.tool) : Return(tool_execute(req.tool, env, req.args, w), w)

ExecuteHotelBooking ==
    /\ Called("execute", "book_hotel")
    /\ \E w \in Worlds(req.tool) : Return(tool_execute(req.tool, env, req.args, w), w)

ExecuteHealthAdvice ==
    /\ Called("execute", "get_health_advice")
    /\ \E w \in Worlds(req.tool) : Return(tool_execute(req.tool, env, req.args, w), w)

ExecutePharmacyLocator ==
    /\ Called("execute", "find_pharmacy")
    /\ \E w \in Worlds(req.tool) : Return(tool_execute(req.tool, env, req.args, w), w)

ExecutePlaces ==
    /\ Called("execute", "search_places")
    /\ \E w \in Worlds(req.tool) : Return(tool_execute(req.tool, env, req.args, w), w)

ExecuteCv ==
    /\ Called("execute", "create_cv")
    /\ \E w \in Worlds(req.tool) : Return(tool_execute(req.tool, env, req.args, w), w)

ExecuteBusSchedule ==
    /\ Called("execute", "get_bus_schedule")
    /\ \E w \in Worlds(req.tool) : Return(tool_execute(req.tool, env, req.args, w), w)

InitTools ==
    /\ req \in ExecuteRequests
    /\ env \in ToolEnvs(req.tool)
    /\ answers = NoAnswers
    /\ res = NoResult
    /\ ev = <<>>
    /\ resp = NoResp
    /\ Quiet

NextTools ==
    \/ ExecuteFlightSearch
    \/ ExecuteHotelSearch
    \/ ExecuteFlightBooking
    \/ ExecuteHotelBooking
    \/ ExecuteHealthAdvice
    \/ ExecutePharmacyLocator
    \/ ExecutePlaces
    \/ ExecuteCv
    \/ ExecuteBusSchedule

\* the tool implementations, each called through its execute
SpecTools == InitTools /\ [][NextTools]_vars

(***************************************************************************)
(* Calls through the dispatch table                                        *)
(***************************************************************************)
UnknownNames == {"", "None", "search_flight", "SEARCH_FLIGHTS", "get_weather"}

\* the calls of execute_tool: every name, with argument mappings and None
DispatchRequests ==
    UNION {{[op |-> "execute_tool", tool |-> name, args |-> a] :
                a \in IF name \in ModelledTools THEN {Args(kv) : kv \in ToolKvs(name)} \cup {NullArgs}
                      ELSE {Args([query |-> StrV(<<"x">>)]), Args(FlightKv), NullArgs}} :
               name \in ToolNames \cup UnknownNames}

\* the environments of a call through the dispatch table: the tool's, with
\* tool modules that can or cannot be imported
DispatchEnvs(name) == {[e EXCEPT !.modules = m] : e \in ToolEnvs(name), m \in BOOLEAN}

ExecuteTool ==
    /\ Pending
    /\ req.op = "execute_tool"
    /\ \E w \in Worlds(req.tool) : Return(execute_tool(req.tool, env, req.args, w), w)

InitDispatch ==
    /\ req \in DispatchRequests
    /\ env \in DispatchEnvs(req.tool)
    /\ answers = NoAnswers
    /\ res = NoResult
    /\ ev = <<>>
    /\ resp = NoResp
    /\ Quiet

\* the dispatch table, called with every tool name
SpecDispatch == InitDispatch /\ [][ExecuteTool]_vars

(***************************************************************************)
(* Calls through the front-ends                                            *)
(***************************************************************************)
\* keyword arguments of a handler: a value for the keys in given, unfilled
\* for the others
KvOf(name, given, unfilled) ==
    [k \in DOMAIN EmptyKv(name) |->
        IF k = "extra" THEN FALSE ELSE IF k \in given THEN StrV(<<"x">>) ELSE unfilled]

FrontKvs(name) ==
    CASE name = "search_flights" ->
            {[EmptyKv(name) EXCEPT !.origin = o, !.destination = d, !.departure_date = x,
                                   !.adults = a, !.extra = b] :
                o \in SampleCodes \cup {StrV(OUA), Null, Absent}, d \in {StrV(CDG), Absent},
                x \in {DateText(2025, 12, 15), StrV(<<"15/12/2025">>)}, a \in {Absent, IntV(2)}, b \in BOOLEAN}
      [] name = "search_hotels" ->
            {[EmptyKv(name) EXCEPT !.city_code = c, !.check_in_date = p[1], !.check_out_date = p[2],
                                   !.hotel_name = h, !.extra = b] :
                c \in {StrV(OUA), StrV(<<"o", "u">>), Absent}, p \in SampleDates,
                h \in {Absent, StrV(<<"Azalai">>)}, b \in BOOLEAN}
      [] name = "book_flight" ->
            {[KvOf(name, RequiredParams(name) \ {k}, u) EXCEPT !.passenger_gender = g, !.extra = b] :
                k \in RequiredParams(name) \cup {"none"}, u \in {Absent, StrV(<<>>), Null},
                g \in {Absent, StrV(<<"FEMALE">>), StrV(<<>>)}, b \in BOOLEAN}
      [] name = "book_hotel" ->
            {[KvOf(name, RequiredParams(name) \ {k}, u) EXCEPT !.card_type = t, !.card_number = n, !.extra = b] :
                k \in RequiredParams(name) \cup {"none"}, u \in {Absent, StrV(<<>>), Null},
                t \in {Absent, StrV(<<"MASTERCARD">>)}, n \in {Absent, Null, StrV(<<"4111111111111111">>)},
                b \in BOOLEAN}
      [] OTHER ->
            {[EmptyKv(name) EXCEPT !.line_number = l, !.from_city = c, !.extra = b] :
                l \in {StrV(<<"1">>), StrV(<<"9">>), StrV(<<"all">>), Null, Absent},
                c \in {Absent, StrV(Ouagadougou)}, b \in BOOLEAN}

\* the "name" member of params: a registered name, other JSON scalars, a
\* list, or no member
NameValues ==
    {StrV(<<name>>) : name \in RegisteredTools \cup {"get_weather", ""}} \cup {Null, IntV(7), [t |-> "list", s |-> <<>>, n |-> 0], Absent}

McpArguments(name) ==
    IF name.t = "str" /\ Len(name.s) = 1 /\ name.s[1] \in RegisteredTools
    THEN {Args(kv) : kv \in FrontKvs(name.s[1])} \cup {AbsentArgs, NullArgs, ListArgs}
    ELSE {AbsentArgs, NullArgs, Args(EmptyKv("get_bus_schedule"))}

McpData == [op |-> "mcp", tool |-> "", body |-> "object", id |-> Null, method |-> "",
            params |-> "absent", name |-> Absent, arguments |-> AbsentArgs]

\* the bodies posted to /mcp
McpRequests ==
    {[McpData EXCEPT !.body = b] : b \in {"empty", "array"}}
    \cup {[McpData EXCEPT !.id = i, !.method = m, !.params = q] :
             i \in {IntV(1), Null},
             m \in {"initialize", "tools/list", "tools/call", "ping", "tools/Call", ""}, q \in {"absent", "null", "list"}}
    \cup UNION {{[McpData EXCEPT !.id = i, !.method = m, !.params = "object", !.name = n, !.arguments = a,
                                   !.tool = IF n.t = "str" /\ Len(n.s) = 1 THEN n.s[1] ELSE ""] :
                     i \in {IntV(1), Null}, m \in {"tools/call", "initialize", "ping"}, a \in McpArguments(n)} :
                 n \in NameValues}

FastMcpRequests ==
    UNION {{[op |-> "fastmcp", tool |-> name, args |-> Args(kv)] : kv \in FrontKvs(name)} :
               name \in RegisteredTools}

HandleMcpRequest ==
    /\ Pending
    /\ req.op = "mcp"
    /\ \E w \in Worlds(req.tool) :
          LET out == handle_mcp_request(env, req, w)
          IN  /\ resp' = out.resp
              /\ res' = out.res
              /\ ev' = out.ev
              /\ answers' = w
              /\ UNCHANGED <<env, req, aside>>

FastMcpCall ==
    /\ Pending
    /\ req.op = "fastmcp"
    /\ \E w \in Worlds(req.tool) : Return(fastmcp_call(req.tool, env, req.args.kv, w), w)

InitFrontend ==
    /\ req \in McpRequests \cup FastMcpRequests
    /\ env \in ToolEnvs(req.tool)
    /\ answers = NoAnswers
    /\ res = NoResult
    /\ ev = <<>>
    /\ resp = NoResp
    /\ Quiet

NextFrontend == HandleMcpRequest \/ FastMcpCall

\* the two transport front-ends
SpecFrontend == InitFrontend /\ [][NextFrontend]_vars

(***************************************************************************)
(* The email tool                                                          *)
(***************************************************************************)
\* the ceiling of the polling loop, in seconds
EMAIL_SEND_TIMEOUT == 30
\* the longest a sleep of half a second oversleeps, in half seconds
MaxOversleep == 1

MsgEmailMissing == "Adresse email manquante"
MsgEmailFormat == "Format d'adresse email invalide: '<email>'"
MsgEmailTimeout == "Delai d'envoi depasse (30s)"
MsgEmailSent == "Email envoye avec succes"
MsgEmailExc == "Erreur envoi email: <exception>"

\* the text of an address is a sequence of pieces: runs of letters ("jean",
\* "awa", "ali", "example", "com", "c"), the digit "1", ".", "@", a blank and
\* a double quote
\* str.strip('"\''): drop leading and trailing quotes
RECURSIVE StripQuotes(_)
StripQuotes(s) ==
    IF s # <<>> /\ Head(s) = "\"" THEN StripQuotes(Tail(s))
    ELSE IF s # <<>> /\ s[Len(s)] = "\"" THEN StripQuotes(SubSeq(s, 1, Len(s) - 1))
    ELSE s

\* EMAIL_REGEX.match(email): ^[a-zA-Z0-9._%+-]+@[a-zA-Z0-9.-]+\.[a-zA-Z]{2,}$
EMAIL_REGEX(email) ==
    LET Letters(p) == CASE p \in {"jean", "awa", "ali", "example", "com"} -> 2
                        [] p = "c" -> 1
                        [] OTHER   -> 0
        Name(p) == Letters(p) > 0 \/ p \in {"1", "."}
    IN  \E s \in {email} : \E i \in 1..Len(s) : \E j \in 1..Len(s) :
            /\ 1 < i /\ i + 1 < j /\ j < Len(s)
            /\ s[i] = "@" /\ s[j] = "."
            /\ \A k \in 1..(i - 1) : Name(s[k])
            /\ \A k \in (i + 1)..(j - 1) : Name(s[k])
            /\ \A k \in (j + 1)..Len(s) : Letters(s[k]) > 0
            /\ (Len(s) > j + 1 \/ Letters(s[Len(s)]) >= 2)

\* a dict returned by send_email: error_type is "" when the dict has none,
\* keys are its other members
EmailResult(status, message, error_type, keys) ==
    [Ret(status, message, error_type) EXCEPT !.listed = keys]

\* except Exception in send_email, for an exception whose text mentions the
\* recipient, a timeout, the connection, or none of them
email_exception(text) ==
    CASE text = "recipient" ->
            EmailResult("error", "Adresse email invalide ou inexistante: <email>", "InvalidRecipientError", <<"to", "details">>)
      [] text = "timeout" ->
            EmailResult("error", "Delai d'envoi depasse", "TimeoutError", <<"to", "details">>)
      [] text = "connection" ->
            EmailResult("error", "Erreur de connexion au service email", "ConnectionError", <<"to", "details">>)
      [] OTHER ->
            EmailResult("error", MsgEmailExc, "<type(e).__name__>", <<"traceback", "to", "details">>)

\* what begin_send and the import before it do, and how the send ends
BeginSendAnswers == {"poller", "ImportError", "recipient", "timeout", "connection", "other"}
PollerOutcomes == {"succeeded", "recipient", "timeout", "connection", "other"}

\* the address send_email validates: stripped, lower-cased, unquoted
CleanAddress(email) == IF Truthy(email) THEN StripQuotes(Lower(Strip(email.s))) ELSE <<>>

\* send_email up to begin_send: the dict it returns, or NoResult when the
\* poller is created and the polling starts
send_email(e, email, subject, message, w) ==
    IF Truthy(email) /\ email.t # "str" THEN email_exception("other")
    ELSE IF CleanAddress(email) = <<>>
    THEN EmailResult("error", MsgEmailMissing, "ValidationError", <<"details">>)
    ELSE IF ~EMAIL_REGEX(CleanAddress(email))
    THEN EmailResult("error", MsgEmailFormat, "ValidationError", <<"details">>)
    ELSE IF ~e.acs_connection
    THEN EmailResult("error", "Azure Communication Email non configure", "", <<"details">>)
    ELSE IF ~e.acs_sender
    THEN EmailResult("error", "Expediteur email non configure", "", <<"details">>)
    ELSE IF message.t # "str" THEN email_exception("other")
    ELSE CASE w.begin_send = "poller" -> NoResult
           [] w.begin_send = "ImportError" ->
                EmailResult("error", "Package Azure Communication Email non installe", "ImportError",
                            <<"error_details", "solution">>)
           [] OTHER -> email_exception(w.begin_send)

\* a or b
Or(a, b) == IF Truthy(a) THEN a ELSE b

\* the values execute resolves from the alias keys
ResolvedEmail(kv) ==
    Or(Get(kv.email, Null), Or(Get(kv.to_email, Null), Or(Get(kv.recipient, Null), StrV(<<>>))))
ResolvedMessage(kv) ==
    Or(Get(kv.message, Null), Or(Get(kv.body, Null), Or(Get(kv.content, Null), StrV(<<>>))))

\* tool_email.execute(arguments) up to begin_send
email_execute(e, kv, w) ==
    LET subject == Get(kv.subject, StrV(<<>>))
    IN  IF subject.t # "str" \/ ResolvedMessage(kv).t = "int" THEN Raise("TypeError")
        ELSE send_email(e, ResolvedEmail(kv), subject, ResolvedMessage(kv), w)

\* time.time() - start_time > EMAIL_SEND_TIMEOUT, the time in half seconds
NeverExceeded(elapsed) == elapsed < 0
CeilingExceeded(elapsed) == elapsed > 2 * EMAIL_SEND_TIMEOUT

Jean == <<"jean", "@", "example", ".", "com">>
Awa == <<"awa", "@", "example", ".", "com">>
Ali == <<"ali", "@", "example", ".", "com">>

EmailKv == [email |-> StrV(Jean), to_email |-> Absent, recipient |-> Absent, subject |-> StrV(<<"Bonjour">>),
            message |-> StrV(<<"Salut">>), body |-> Absent, content |-> Absent]
EmailKvs ==
    {[EmailKv EXCEPT !.email = a, !.to_email = b, !.recipient = c] :
        a \in {StrV(s) : s \in {Jean, <<" ", "JEAN", "@", "example", ".", "com", " ">>, <<"\"">> \o Jean \o <<"\"">>,
                                <<"jean", "@", "example">>, <<"jean", "@", "example", ".", "c">>,
                                <<"jean", ".", "1", "@", "example", ".", "com", ".", "c", "com">>,
                                <<"jean", " ", "@", "example", ".", "com">>, <<" ">>, <<>>}}
              \cup {Null, IntV(5), Absent},
        b \in {StrV(Awa), StrV(<<>>), Absent},
        c \in {StrV(Ali), Absent}}
    \cup {[EmailKv EXCEPT !.subject = s, !.message = m, !.body = b, !.content = c] :
        s \in {StrV(<<"Bonjour">>), Null, IntV(1), Absent},
        m \in {StrV(<<"Salut">>), StrV(<<>>), Null, IntV(7), ObjV(<<"text">>), Absent},
        b \in {StrV(<<"Corps">>), Absent},
        c \in {StrV(<<"Contenu">>), Absent}}
    \cup {[EmailKv EXCEPT !.email = Absent, !.subject = s, !.message = m] :
        s \in {StrV(<<"Bonjour">>), Null, Absent}, m \in {StrV(<<"Salut">>), IntV(7), Absent}}

EmailRequests == {[op |-> "execute", tool |-> "send_email", args |-> Args(kv)] : kv \in EmailKvs}
EmailEnvs == {[FullEnv EXCEPT !.acs_connection = c, !.acs_sender = s] : c \in BOOLEAN, s \in BOOLEAN}
EmailWorlds == {[World EXCEPT !.begin_send = b] : b \in BeginSendAnswers}

\* execute is called: it returns, raises, or starts to poll
EmailBegin ==
    /\ Called("execute", "send_email")
    /\ poll.pc = "idle"
    /\ \E w \in EmailWorlds : \E r \in {email_execute(env, req.args.kv, w)} :
          /\ res' = r
          /\ answers' = w
          /\ poll' = [pc |-> IF r = NoResult THEN "test" ELSE "returned", elapsed |-> 0,
                       operation |-> IF r = NoResult THEN "running" ELSE "none",
                       email |-> ResolvedEmail(req.args.kv), message |-> ResolvedMessage(req.args.kv)]
    /\ UNCHANGED <<env, req, ev, resp, defs, desc, srv>>

\* the operation the poller follows ends, with the message sent or not
PollerEnds ==
    /\ poll.pc \in {"test", "sleep"}
    /\ poll.operation = "running"
    /\ \E o \in PollerOutcomes : poll' = [poll EXCEPT !.operation = o]
    /\ UNCHANGED <<env, req, answers, res, ev, resp, defs, desc, srv>>

\* while not poller.done(): and the test of the ceiling
PollTest ==
    /\ poll.pc = "test"
    /\ IF poll.operation # "running"
       THEN poll' = [poll EXCEPT !.pc = "result"] /\ UNCHANGED res
       ELSE IF CeilingExceeded(poll.elapsed)
       THEN /\ poll' = [poll EXCEPT !.pc = "returned"]
            /\ res' = EmailResult("error", MsgEmailTimeout, "TimeoutError", <<"to", "details">>)
       ELSE poll' = [poll EXCEPT !.pc = "sleep"] /\ UNCHANGED res
    /\ UNCHANGED <<env, req, answers, ev, resp, defs, desc, srv>>

\* time.sleep(0.5); poller.status()
PollSleep ==
    /\ poll.pc = "sleep"
    /\ \E d \in 1..(1 + MaxOversleep) : poll' = [poll EXCEPT !.pc = "test", !.elapsed = @ + d]
    /\ UNCHANGED <<env, req, answers, res, ev, resp, defs, desc, srv>>

\* poller.result() and the return that follows it
PollResult ==
    /\ poll.pc = "result"
    /\ poll' = [poll EXCEPT !.pc = "returned"]
    /\ res' = IF poll.operation = "succeeded"
              THEN EmailResult("success", MsgEmailSent, "", <<"to", "subject", "message_id">>)
              ELSE email_exception(poll.operation)
    /\ UNCHANGED <<env, req, answers, ev, resp, defs, desc, srv>>

InitEmail ==
    /\ req \in EmailRequests
    /\ env \in EmailEnvs
    /\ answers = NoAnswers
    /\ res = NoResult
    /\ ev = <<>>
    /\ resp = NoResp
    /\ Quiet

\* the steps of the thread that runs send_email
EmailStep == EmailBegin \/ PollTest \/ PollSleep \/ PollResult

NextEmail == EmailStep \/ PollerEnds

\* the email tool, called through its execute
SpecEmail == InitEmail /\ [][NextEmail]_vars

\* the same, the thread that runs send_email being scheduled as long as it
\* has a step to take: time.sleep returns and the calls on the poller do not
\* block
LiveEmail == SpecEmail /\ WF_vars(EmailStep)

(***************************************************************************)
(* Tool definitions: get_tools_definition.  A tool definition is a dict    *)
(* with the members type, function, name, description and parameters, each *)
(* a value or Absent.                                                      *)
(***************************************************************************)
\* longest list of raw tool definitions drawn as an input
MaxTools == 2

\* no call is in progress
NoRequest == [op |-> "none", tool |-> "", args |-> NullArgs]
Idle == env = FullEnv /\ req = NoRequest /\ answers = NoAnswers /\ res = NoResult /\ ev = <<>> /\ resp = NoResp

\* the dict built for a flat definition, whatever the definition
Nest(tool) ==
    [type |-> StrV(<<"function">>),
     function |-> [t |-> "obj", name |-> tool.name, description |-> tool.description,
                   parameters |-> Get(tool.parameters, ObjV(<<>>))],
     name |-> Absent, description |-> Absent, parameters |-> Absent]

\* the body of the loop over raw_tools
Normalize(tool) ==
    IF tool.function.t # "absent" THEN tool
    ELSE IF tool.name.t # "absent" /\ tool.description.t # "absent" THEN Nest(tool)
    ELSE tool

\* formatted_tools, for compact=False
FormattedTools(raw_tools) == [i \in 1..Len(raw_tools) |-> Normalize(raw_tools[i])]

\* the dicts a get_tool_definition returns: nested, flat, both or neither
RawTools ==
    [type : {StrV(<<"function">>), Absent},
     function : {[t |-> "obj", name |-> StrV(<<"send_email">>), description |-> StrV(<<"Envoie un email">>),
                  parameters |-> ObjV(<<"properties">>)], Null, Absent},
     name : {StrV(<<"send_email">>), Absent},
     description : {StrV(<<"Envoie un email">>), Absent},
     parameters : {ObjV(<<"properties">>), Absent}]

\* get_tools_definition() formats the raw definitions
GetToolsDefinition ==
    /\ defs.pc = "idle"
    /\ defs' = [defs EXCEPT !.pc = "formatted", !.formatted = FormattedTools(defs.raw)]
    /\ UNCHANGED <<call, poll, desc, srv>>

\* the same loop runs over the list it produced
FormatAgain ==
    /\ defs.pc = "formatted"
    /\ defs' = [defs EXCEPT !.pc = "again", !.again = FormattedTools(defs.formatted)]
    /\ UNCHANGED <<call, poll, desc, srv>>

InitDefinitions ==
    /\ Idle
    /\ defs \in {[NoDefs EXCEPT !.raw = r] : r \in SeqsUpTo(RawTools, MaxTools)}
    /\ poll = NoPoll /\ desc = NoDesc /\ srv = NoServer

NextDefinitions == GetToolsDefinition \/ FormatAgain

\* the normalization of the tool definitions
SpecDefinitions == InitDefinitions /\ [][NextDefinitions]_vars

(***************************************************************************)
(* Compact tool definitions: _truncate_description.  A description is a    *)
(* sequence of characters: the letter "a", the blank and the line feed.    *)
(***************************************************************************)
\* longest description drawn as an input
MaxTextLen == 5
\* largest max_length drawn as an input
MaxLimit == 3

IsWhitespace(c) == c \in {" ", "\n"}

\* text.split()
RECURSIVE Split(_)
Split(text) ==
    IF text = <<>> THEN <<>>
    ELSE IF IsWhitespace(Head(text)) THEN Split(Tail(text))
    ELSE LET n == CHOOSE k \in 1..Len(text) :
                    /\ \A i \in 1..k : ~IsWhitespace(text[i])
                    /\ (k = Len(text) \/ IsWhitespace(text[k + 1]))
         IN  <<SubSeq(text, 1, n)>> \o Split(SubSeq(text, n + 1, Len(text)))

\* ' '.join(words)
RECURSIVE Join(_)
Join(words) ==
    IF words = <<>> THEN <<>>
    ELSE IF Len(words) = 1 THEN words[1]
    ELSE words[1] \o <<" ">> \o Join(Tail(words))

\* s.rsplit(' ', 1)[0]
RSplitHead(s) ==
    IF \A i \in 1..Len(s) : s[i] # " " THEN s
    ELSE SubSeq(s, 1, (CHOOSE k \in 1..Len(s) : s[k] = " " /\ \A i \in (k + 1)..Len(s) : s[i] # " ") - 1)

Ellipsis == <<".", ".", ".">>

_truncate_description(text, max_length) ==
    IF text = <<>> THEN text
    ELSE LET collapsed == Join(Split(text))
         IN  IF Len(collapsed) <= max_length THEN collapsed
             ELSE RSplitHead(SubSeq(collapsed, 1, max_length)) \o Ellipsis

Descriptions == SeqsUpTo({"a", " ", "\n"}, MaxTextLen)

\* a description is truncated at max_length
TruncateDescription ==
    /\ desc.pc = "idle"
    /\ desc' = [desc EXCEPT !.pc = "done", !.result = _truncate_description(desc.text, desc.max_length)]
    /\ UNCHANGED <<call, poll, defs, srv>>

InitTruncate ==
    /\ Idle
    /\ desc \in {[NoDesc EXCEPT !.text = t, !.max_length = m] : t \in Descriptions, m \in 0..MaxLimit}
    /\ poll = NoPoll /\ defs = NoDefs /\ srv = NoServer

\* the truncation of the descriptions
SpecTruncate == InitTruncate /\ [][TruncateDescription]_vars

(***************************************************************************)
(* Compact and Realtime tool definitions.  A dict is a record whose        *)
(* missing keys hold Absent; the properties of a parameters dict are a     *)
(* sequence of keys with their values, in the order of the dict.           *)
(***************************************************************************)
\* the limits _compact_tool_definition and _convert_to_realtime_format give
\* _truncate_description
DescriptionLimit == 150
PropertyDescriptionLimit == 80

HasKey(d, k) == k \in DOMAIN d /\ d[k] # Absent
ListV(s) == [t |-> "list", s |-> s, n |-> 0]

\* the value built for one property
CompactProperty(value) ==
    [t |-> "obj",
     type |-> Get(value.type, StrV(<<"string">>)),
     description |-> StrV(_truncate_description(Get(value.description, StrV(<<>>)).s, PropertyDescriptionLimit)),
     default |-> value.default,
     enum |-> Absent,
     properties |-> Absent]

_compact_tool_definition(tool) ==
    IF ~HasKey(tool, "function") THEN tool
    ELSE LET func == tool.function
             params == Get(func.parameters, ObjV(<<>>))
             compact_func ==
                 [t |-> "obj",
                  name |-> Get(func.name, StrV(<<>>)),
                  description |-> StrV(_truncate_description(Get(func.description, StrV(<<>>)).s, DescriptionLimit)),
                  parameters |->
                      [t |-> "obj",
                       type |-> StrV(<<"object">>),
                       properties |->
                           IF HasKey(params, "properties")
                           THEN [i \in 1..Len(params.properties) |->
                                    [key |-> params.properties[i].key,
                                     value |-> CompactProperty(params.properties[i].value)]]
                           ELSE <<>>,
                       required |-> IF HasKey(params, "required") THEN params.required ELSE ListV(<<>>)]]
         IN  [type |-> StrV(<<"function">>), function |-> compact_func,
              name |-> Absent, description |-> Absent, parameters |-> Absent]

_convert_to_realtime_format(tool) ==
    IF ~HasKey(tool, "function") THEN tool
    ELSE LET func == tool.function
         IN  [type |-> StrV(<<"function">>),
              function |-> Absent,
              name |-> Get(func.name, StrV(<<>>)),
              description |-> StrV(_truncate_description(Get(func.description, StrV(<<>>)).s, DescriptionLimit)),
              parameters |-> Get(func.parameters,
                                 [t |-> "obj", type |-> StrV(<<"object">>), properties |-> <<>>, required |-> Absent])]

\* get_tools_definition(compact=True)
CompactTools(raw_tools) ==
    LET formatted_tools == FormattedTools(raw_tools)
    IN  [i \in 1..Len(formatted_tools) |-> _compact_tool_definition(formatted_tools[i])]

\* get_tools_definition_realtime, from the compact list
RealtimeTools(chat_tools) == [i \in 1..Len(chat_tools) |-> _convert_to_realtime_format(chat_tools[i])]

\* a text of n words of the given length
Words(n, length) == Join([i \in 1..n |-> [j \in 1..length |-> "a"]])
\* descriptions of tools: empty, short, and longer than the limit with the
\* last word boundary before it near and far
ToolTexts == {<<>>, Words(3, 9), Words(17, 9), Words(9, 19), Words(8, 24), Words(1, 160)}
PropertyTexts == {Words(2, 4), Words(10, 9)}

PropertyValues ==
    [t : {"obj"},
     type : {StrV(<<"string">>), StrV(<<"object">>)},
     description : {StrV(s) : s \in PropertyTexts},
     default : {Absent, IntV(5)},
     enum : {Absent, ListV(<<"MALE", "FEMALE">>)},
     properties : {Absent, ObjV(<<"first_name">>)}]

ParameterValues ==
    {[t |-> "obj", type |-> StrV(<<"object">>), properties |-> <<[key |-> "passenger", value |-> v]>>,
      required |-> r] : v \in PropertyValues, r \in {ListV(<<"passenger">>), Absent}}

\* the dicts a get_tool_definition returns, nested and flat
DefinedTools ==
    {[type |-> StrV(<<"function">>),
      function |-> [t |-> "obj", name |-> StrV(<<"book_flight">>), description |-> StrV(d), parameters |-> p],
      name |-> Absent, description |-> Absent, parameters |-> Absent] :
         d \in ToolTexts, p \in ParameterValues}
    \cup {[type |-> Absent, function |-> Absent, name |-> StrV(<<"book_flight">>),
           description |-> StrV(d), parameters |-> p] : d \in ToolTexts, p \in ParameterValues}

\* get_tools_definition(compact=True)
GetToolsDefinitionCompact ==
    /\ defs.pc = "defined"
    /\ defs' = [defs EXCEPT !.pc = "compact", !.formatted = CompactTools(defs.raw)]
    /\ UNCHANGED <<call, poll, desc, srv>>

\* get_tools_definition_realtime converts the compact list
GetToolsDefinitionRealtime ==
    /\ defs.pc = "compact"
    /\ defs' = [defs EXCEPT !.pc = "realtime", !.again = RealtimeTools(defs.formatted)]
    /\ UNCHANGED <<call, poll, desc, srv>>

InitCompact ==
    /\ Idle
    /\ defs \in {[NoDefs EXCEPT !.pc = "defined", !.raw = <<tool>>] : tool \in DefinedTools}
    /\ poll = NoPoll /\ desc = NoDesc /\ srv = NoServer

NextCompact == GetToolsDefinitionCompact \/ GetToolsDefinitionRealtime

\* the compact and the Realtime definitions of the tools
SpecCompact == InitCompact /\ [][NextCompact]_vars

(***************************************************************************)
(* The server: its registry of tools, its start, and the requests that    *)
(* its threads answer side by side                                         *)
(***************************************************************************)
\* the requests in flight at one time
MaxClients == 2
Clients == 1..MaxClients

\* the decorated handlers of the module, in their order, each with the
\* "required" list of its schema
Registrations ==
    << [name |-> "search_flights",   required |-> {"origin", "destination", "departure_date"}],
       [name |-> "book_flight",      required |-> {"flight_offer_id", "passenger_first_name",
                                                   "passenger_last_name", "passenger_email",
                                                   "passenger_phone", "passenger_date_of_birth"}],
       [name |-> "search_hotels",    required |-> {"city_code", "check_in_date", "check_out_date"}],
       [name |-> "book_hotel",       required |-> {"hotel_offer_id", "guest_first_name",
                                                   "guest_last_name", "guest_email", "guest_phone"}],
       [name |-> "get_bus_schedule", required |-> {}] >>

\* the keys of the registry, in the order of their insertion
Names(tools) == [i \in 1..Len(tools) |-> tools[i].name]
Has(tools, name) == \E i \in 1..Len(tools) : tools[i].name = name

\* self.tools[name] = {...}: a new key is added at the end, a known key
\* keeps its place and takes the new value
server_tool(tools, registration) ==
    LET entry == [name |-> registration.name,
                  inputSchema |-> [type |-> "object", required |-> registration.required]]
    IN IF Has(tools, registration.name)
       THEN [i \in 1..Len(tools) |-> IF tools[i].name = registration.name THEN entry ELSE tools[i]]
       ELSE Append(tools, entry)

\* the server object exists: true from the construction on
Constructed(tools) == Len(tools) >= 0
\* server.run comes last in the module, after every decorator has run
Decorated(tools) == Len(tools) = Len(Registrations)

\* the answers of the routes, as far as they show the registry
NoAnswer == [kind |-> "none", tools |-> <<>>, count |-> 0, name |-> "", found |-> FALSE]
health(tools) == [NoAnswer EXCEPT !.kind = "/health", !.count = Len(tools)]
list_tools(tools) ==
    LET tools_list == Names(tools)
    IN [NoAnswer EXCEPT !.kind = "/tools", !.tools = tools_list, !.count = Len(tools_list)]
index(tools) == [NoAnswer EXCEPT !.kind = "/", !.count = Len(tools)]
\* POST /mcp, by method; name is the tool that tools/call names
_handle_mcp_request(tools, method, name) ==
    CASE method = "initialize" -> [NoAnswer EXCEPT !.kind = "initialize"]
      [] method = "tools/list" ->
            LET tools_list == [i \in 1..Len(tools) |->
                                  [name |-> tools[i].name, inputSchema |-> tools[i].inputSchema]]
            IN [NoAnswer EXCEPT !.kind = "tools/list", !.tools = tools_list, !.count = Len(tools_list)]
      [] method = "tools/call" ->
            \* the handler itself runs a tool, which never sees the registry
            [NoAnswer EXCEPT !.kind = "tools/call", !.name = name, !.found = Has(tools, name)]
      [] OTHER -> [NoAnswer EXCEPT !.kind = "error"]

Methods == {"initialize", "tools/list", "tools/call", "ping"}
CalledNames == {"search_flights", "get_bus_schedule", "get_weather"}
NoFlight == [route |-> "none", method |-> "", name |-> ""]
Routes == {"/mcp", "/health", "/tools", "/"}

\* the server before the module is imported
NewServer == [tools |-> <<>>, started |-> FALSE,
              inflight |-> [c \in Clients |-> NoFlight],
              seen |-> [c \in Clients |-> NoAnswer]]

\* the next decorator of the module registers its handler
RegisterTool ==
    /\ Len(srv.tools) < Len(Registrations)
    /\ srv' = [srv EXCEPT !.tools = server_tool(srv.tools, Registrations[Len(srv.tools) + 1])]
    /\ UNCHANGED <<call, poll, defs, desc>>

\* server.run: the threads begin to serve
Run ==
    /\ ~srv.started
    /\ Decorated(srv.tools)
    /\ srv' = [srv EXCEPT !.started = TRUE]
    /\ UNCHANGED <<call, poll, defs, desc>>

\* a request reaches a thread of the started server; the client has read the
\* answer to its request before
Receive(c) ==
    /\ srv.started
    /\ srv.inflight[c] = NoFlight
    /\ \E route \in Routes :
         \E method \in IF route = "/mcp" THEN Methods ELSE {""} :
           \E name \in IF method = "tools/call" THEN CalledNames ELSE {""} :
             srv' = [srv EXCEPT !.inflight[c] = [route |-> route, method |-> method, name |-> name],
                               !.seen[c] = NoAnswer]
    /\ UNCHANGED <<call, poll, defs, desc>>

\* the thread of c answers from the registry as it is now, and leaves it alone
Answer(c, route, answer) ==
    /\ srv.inflight[c].route = route
    /\ srv' = [srv EXCEPT !.inflight[c] = NoFlight, !.seen[c] = answer]
    /\ UNCHANGED <<call, poll, defs, desc>>

AnswerMcp(c) ==
    Answer(c, "/mcp", _handle_mcp_request(srv.tools, srv.inflight[c].method, srv.inflight[c].name))
AnswerHealth(c) == Answer(c, "/health", health(srv.tools))
AnswerTools(c) == Answer(c, "/tools", list_tools(srv.tools))
AnswerIndex(c) == Answer(c, "/", index(srv.tools))

InitServer ==
    /\ Idle
    /\ poll = NoPoll /\ defs = NoDefs /\ desc = NoDesc
    /\ srv = NewServer

NextServer ==
    \/ RegisterTool
    \/ Run
    \/ \E c \in Clients : Receive(c)
    \/ \E c \in Clients : AnswerMcp(c)
    \/ \E c \in Clients : AnswerHealth(c)
    \/ \E c \in Clients : AnswerTools(c)
    \/ \E c \in Clients : AnswerIndex(c)

\* the server from the import of its module on
SpecServer == InitServer /\ [][NextServer]_vars

(***************************************************************************)
(* The whole system                                                        *)
(***************************************************************************)
Init ==
    /\ req \in ExecuteRequests \cup DispatchRequests \cup McpRequests \cup FastMcpRequests
    /\ env \in IF req.op = "execute_tool" THEN DispatchEnvs(req.tool) ELSE ToolEnvs(req.tool)
    /\ answers = NoAnswers
    /\ res = NoResult
    /\ ev = <<>>
    /\ resp = NoResp
    /\ Quiet

Next == NextTools \/ ExecuteTool \/ NextFrontend

Spec == Init /\ [][Next]_vars

(***************************************************************************)
(* Properties                                                              *)
(***************************************************************************)
\* the call has been answered
Done == ~Pending
\* the call returned a dict to its caller
Returned == res.kind = "return"
\* no outbound HTTP request was made
NoHttp == \A i \in 1..Len(ev) : ~IsHttp(ev[i])
\* the value the arguments mapping gives the tool for key k
Arg(k, default) == Get(req.args.kv[k], default)
\* the "name" member of a tools/call names a registered handler
NamesRegistered ==
    /\ req.params = "object"
    /\ req.name.t = "str"
    /\ Len(req.name.s) = 1
    /\ req.name.s[1] \in RegisteredTools

\* C1: for every known tool name and every arguments value, execute_tool
\* returns a result to its caller and lets no exception escape, the
\* loading of the tool modules included.
C1_KnownToolNeverRaises ==
    (req.op = "execute_tool" /\ req.tool \in ToolNames /\ Done) => Returned

\* C2: for every tool name that is no key of the dispatch table,
\* execute_tool returns an error result listing every known tool name,
\* invokes no tool implementation and does not raise.
C2_UnknownToolListsNames ==
    (req.op = "execute_tool" /\ req.tool \notin ToolNames /\ Done) =>
        /\ Returned
        /\ res.status = "error"
        /\ res.listed = ToolMapKeys
        /\ \A i \in 1..Len(ev) : ev[i].k # "impl"

\* C3: in the JSON-RPC front-end a tools/call gets error -32601 when the
\* tool name is not registered, error -32603 when the registered handler
\* raises, and otherwise a result whose content is one text item holding
\* the JSON text of the handler's return value; a method other than
\* initialize, tools/list and tools/call gets -32601.
C3_ToolsCallAnswers ==
    (req.op = "mcp" /\ req.body = "object" /\ Done) =>
        /\ (req.method = "tools/call" /\ ~NamesRegistered) => resp = RpcError(req.id, -32601)
        /\ (req.method = "tools/call" /\ NamesRegistered /\ res.kind = "raise") =>
               resp = RpcError(req.id, -32603)
        /\ (req.method = "tools/call" /\ NamesRegistered /\ Returned) =>
               resp = RpcResult(req.id, "content", <<TextItem(JsonDumps(res))>>)
        /\ req.method \notin {"initialize", "tools/list", "tools/call"} =>
               resp = RpcError(req.id, -32601)

\* C4: every tool invocation made by a transport front-end goes through
\* execute_tool: each invocation of a tool implementation is preceded by a
\* dispatch of execute_tool for that tool name.
C4_FrontEndsDispatch ==
    req.op \in {"mcp", "fastmcp"} =>
        \A i \in 1..Len(ev) :
            ev[i].k = "impl" => \E j \in 1..(i - 1) : ev[j] = Dispatch(ev[i].x)

\* C5: every value returned by a tool's execute has the status "success"
\* or the status "error" and no other, for every tool and every outcome.
C5_StatusSuccessOrError ==
    (req.op = "execute" /\ Returned) => res.status \in {"success", "error"}

\* the letters among the characters texts are made of
IsAlphaChar(c) == c \in {"o", "u", "a", "O", "U", "A", "C", "D", "G"}
\* exactly three characters, each a letter
IsAlpha3(s) == Len(s) = 3 /\ \A i \in 1..3 : IsAlphaChar(s[i])
\* the text, surrounding blanks aside, is not three letters
NotIata(v) == v.t = "str" /\ ~IsAlpha3(Strip(v.s))
\* the tool answered with this error and made no outbound request
Rejected(message) == Returned /\ res.status = "error" /\ res.message = message /\ NoHttp

\* C6: a flight search whose origin or destination, or a hotel search
\* whose city code, is not exactly 3 alphabetic characters returns an
\* error about the IATA code length and makes no outbound network call
\* (credentials configured, the codes being texts).
C6_BadIataRejected ==
    (req.op = "execute" /\ Done /\ AmadeusConfigured(env)) =>
        /\ (/\ req.tool = "search_flights"
            /\ Arg("origin", StrV(<<>>)).t = "str"
            /\ Arg("destination", StrV(<<>>)).t = "str"
            /\ (NotIata(Arg("origin", StrV(<<>>))) \/ NotIata(Arg("destination", StrV(<<>>)))))
               => Rejected(MsgIataFlight)
        /\ (req.tool = "search_hotels" /\ NotIata(Arg("city_code", StrV(<<>>))))
               => Rejected(MsgIataHotel)

AmadeusTools == {"search_flights", "search_hotels", "book_flight", "book_hotel"}

\* C7: with the Amadeus API key missing, each of the four Amadeus-backed
\* tools returns the configuration error for every input, and no outbound
\* HTTP call, the token request included, is made.
C7_MissingKeyConfigurationError ==
    (req.op = "execute" /\ req.tool \in AmadeusTools /\ ~env.amadeus_key /\ Done) =>
        Rejected(MsgAmadeusKeys)

\* C7 witness: a well-formed flight search, the key missing and the secret
\* set, answered with the configuration error.
C7_Witness ==
    /\ req.op = "execute" /\ req.tool = "search_flights" /\ req.args.kv = FlightKv
    /\ ~env.amadeus_key /\ env.amadeus_secret
    /\ res.message = MsgAmadeusKeys

\* both dates of the hotel search are calendar dates, the second one not
\* after the first
DatesNotAscending ==
    LET check_in == Strptime(Arg("check_in_date", StrV(<<>>)))
        check_out == Strptime(Arg("check_out_date", StrV(<<>>)))
    IN  check_in.kind = "ok" /\ check_out.kind = "ok" /\ check_out.ord <= check_in.ord

\* C8: when the check-out date is not strictly after the check-in date,
\* the hotel search returns an error and makes no outbound network call.
C8_CheckOutNotAfterCheckIn ==
    (req.op = "execute" /\ req.tool = "search_hotels" /\ DatesNotAscending /\ Done) =>
        Returned /\ res.status = "error" /\ NoHttp

\* C8 witness: a configured hotel search for OUA with equal dates, refused
\* for the order of its dates.
C8_Witness ==
    /\ req.op = "execute" /\ req.tool = "search_hotels"
    /\ AmadeusConfigured(env)
    /\ req.args.kv.city_code = StrV(OUA)
    /\ req.args.kv.check_in_date = req.args.kv.check_out_date
    /\ DatesNotAscending
    /\ res.message = MsgDateOrder

\* the primary source of the tool called was unconfigured, or the call
\* found it unreachable, failing or empty
PrimaryUnavailable ==
    \/ /\ req.tool = "get_health_advice"
       /\ \/ ~env.infermedica
          \/ HttpParse \in Range(ev) /\ answers.parse # "200_mentions"
          \/ HttpDiagnosis \in Range(ev) /\ answers.diagnosis # "200_conditions"
    \/ /\ req.tool = "find_pharmacy"
       /\ \/ ~env.azure_maps
          \/ HttpAzurePoi \in Range(ev) /\ answers.poi # "200_results"

\* C9: in the health-advice and pharmacy-locator tools the local dataset
\* is consulted only after the primary source was found unconfigured,
\* unreachable, failing or empty, and in every such case the caller
\* receives a success result built from the local dataset, never an error.
C9_LocalFallbackSucceeds ==
    (req.op = "execute" /\ req.tool \in {"get_health_advice", "find_pharmacy"} /\ Done) =>
        /\ (\E i \in 1..Len(ev) : ev[i].k = "local") => PrimaryUnavailable
        /\ PrimaryUnavailable =>
               /\ Returned
               /\ res.status = "success"
               /\ res.data \in {"advice_database", "general_advice", "PHARMACIES_DE_GARDE"}

\* the health-advice tool was called with a symptom text containing
\* "fievre" while its primary provider was unconfigured or unreachable
FeverWithoutProvider ==
    /\ req.op = "execute" /\ req.tool = "get_health_advice" /\ Done
    /\ Arg("symptoms", StrV(<<>>)).t = "str"
    /\ Infix(<<"fievre">>, Arg("symptoms", StrV(<<>>)).s)
    /\ \/ ~env.infermedica
       \/ answers.parse = "unreachable"
       \/ answers.parse = "200_mentions" /\ answers.diagnosis = "unreachable"

ViralInfection == Returned /\ res.status = "success" /\ "Infection virale" \in Range(res.causes)

\* C10: for every symptom text that contains "fievre", the primary health
\* provider being unreachable or unconfigured, the health-advice tool
\* returns a success result whose possible_causes contains "Infection
\* virale".
C10_FeverGivesViralInfection == FeverWithoutProvider => ViralInfection

\* C10, amended: the same for every symptom text that contains "fievre"
\* and, in any letter case, neither "ballonnement" nor "maux de tete",
\* the keywords looked up before it.
C10_FeverAloneGivesViralInfection ==
    (/\ FeverWithoutProvider
     /\ ~Infix(<<"ballonnement">>, Lower(Arg("symptoms", StrV(<<>>)).s))
     /\ ~Infix(<<"maux de tete">>, Lower(Arg("symptoms", StrV(<<>>)).s)))
        => ViralInfection

\* C10 witness: "fievre toux" with the provider unreachable, answered from
\* the fever entry although "toux" is a keyword too.
C10_Witness ==
    /\ FeverWithoutProvider
    /\ env.infermedica /\ answers.parse = "unreachable"
    /\ Arg("symptoms", StrV(<<>>)) = StrV(<<"fievre", "toux">>)
    /\ ViralInfection

\* C11: the polling loop of the email tool terminates: every call of the tool
\* returns; it sleeps no more once the ceiling of 30 seconds is exceeded, and
\* a call that returns while the send is still running returns an error of
\* type TimeoutError; a success is returned only for a send that completed.
C11_PollingTerminates ==
    /\ [](poll.pc = "sleep" => poll.elapsed <= 2 * EMAIL_SEND_TIMEOUT)
    /\ [](poll.pc = "returned" /\ poll.operation = "running"
            => res.kind = "return" /\ res.status = "error" /\ res.data = "TimeoutError")
    /\ [](res.status = "success" => poll.operation = "succeeded")
    /\ <>(poll.pc = "returned")

\* the send was still running when the ceiling was exceeded, and the call returned
C11_Witness ==
    /\ poll.pc = "returned"
    /\ poll.operation = "running"
    /\ CeilingExceeded(poll.elapsed)
    /\ res.data = "TimeoutError"

\* the value of the first of the keys a, b, c that the arguments mapping
\* holds, the empty text when it holds none
FirstPresent(a, b, c) ==
    LET kv == req.args.kv
    IN  IF kv[a].t # "absent" THEN kv[a]
        ELSE IF kv[b].t # "absent" THEN kv[b]
        ELSE IF kv[c].t # "absent" THEN kv[c]
        ELSE StrV(<<>>)

\* C12: the email tool takes the recipient from the first of the keys email,
\* to_email, recipient that the arguments hold and the body from the first of
\* message, body, content; when the arguments hold no recipient key the call
\* returns a validation error and does not raise.
C12_FirstPresentAlias ==
    poll.pc # "idle" =>
        /\ poll.email = FirstPresent("email", "to_email", "recipient")
        /\ poll.message = FirstPresent("message", "body", "content")
        /\ (FirstPresent("email", "to_email", "recipient") = StrV(<<>>)
                => res.kind = "return" /\ res.status = "error" /\ res.data = "ValidationError")

\* get_bus_schedule is called with a key of SOTRACO_LINES as line_number and
\* no other argument
OnlyLineNumber ==
    /\ req.tool = "get_bus_schedule"
    /\ req.args.kv.type = Absent
    /\ req.args.kv.line_number.t = "str"
    /\ req.args.kv.line_number.s \in SotracoLines

\* C13: for every urban line number "1" to "5" and at every time of day,
\* get_bus_schedule with only line_number given returns a success whose
\* line is the schedule entry of that line.
C13_UrbanLineSucceeds ==
    Done /\ OnlyLineNumber =>
        /\ Returned
        /\ res.status = "success"
        /\ res.line = SOTRACO_LINES(req.args.kv.line_number.s)

\* C14: the normalization of the tool definitions to the nested form is
\* idempotent: run over its own output, for nested definitions, flat ones
\* and definitions of neither shape, it gives that output again.
C14_NormalizationIdempotent == defs.pc = "again" => defs.again = defs.formatted

\* a flat definition was nested by the first pass and the second pass has run
C14_Witness ==
    /\ defs.pc = "again"
    /\ \E i \in 1..Len(defs.raw) :
          defs.raw[i].function = Absent /\ defs.formatted[i] = Nest(defs.raw[i]) /\ defs.formatted[i] # defs.raw[i]

\* C15: for every description and every limit, the text the truncation
\* produces, the ellipsis included, is no longer than the limit.
C15_TruncatedWithinLimit == desc.pc = "done" => Len(desc.result) <= desc.max_length

\* C16: the truncation returns no empty text for a description that is not
\* empty, descriptions made of whitespace only included.
C16_TruncatedNotEmpty == desc.pc = "done" /\ desc.text # <<>> => desc.result # <<>>

\* C17: no failure result returned to the caller holds a raw stack trace.
C17_NoStackTraceReturned == Returned /\ res.status = "error" => "traceback" \notin Range(res.listed)

\* C18: every result a tool returns, a success as well as a failure, has a
\* message member.
C18_ResultHasMessage == Returned => res.message # NoMessage

\* C19: every POST to /mcp is answered with a JSON-RPC response that has
\* exactly one of result and error and the id of the request; an empty body
\* gets error -32700 with id null; no body makes the handler fail without
\* such a response.
C19_EveryPostAnswered ==
    req.op = "mcp" /\ Done =>
        /\ resp.kind = "jsonrpc"
        /\ (resp.code = 0 /\ resp.result # "") \/ (resp.code # 0 /\ resp.result = "")
        /\ IF req.body = "empty" THEN resp = RpcError(Null, -32700) ELSE resp.id = req.id

\* the registry as the start of the server finds it
StartupTools == [i \in 1..Len(Registrations) |-> server_tool(<<>>, Registrations[i])[1]]
\* C20: once the server has started no step changes the registry, and every
\* answer a thread gives shows the registry of the start: tools/list gives the
\* five names with their schemas in the same order, and the tools_count of
\* /health and of /, the count of /tools and the length of tools/list are all
\* the same number
C20_RegistryImmutable ==
    /\ [][srv.started => srv.tools' = srv.tools]_vars
    /\ [](\A c \in Clients :
            LET seen == srv.seen[c]
            IN /\ seen.kind = "tools/list" => seen.tools = StartupTools
               /\ seen.kind = "/tools" => seen.tools = Names(StartupTools)
               /\ seen.kind \in {"tools/list", "/tools", "/health", "/"}
                    => seen.count = Len(StartupTools)
               /\ seen.kind = "tools/call" => seen.found = Has(StartupTools, seen.name))
\* one thread has answered tools/list with the five tools while another has
\* a tools/call in flight
C20_Witness ==
    /\ srv.started
    /\ \E c, d \in Clients :
         /\ c # d
         /\ srv.seen[c].kind = "tools/list" /\ Len(srv.seen[c].tools) = 5
         /\ srv.inflight[d].method = "tools/call"

\* a front-end call of a registered tool whose keyword arguments bind to
\* the signature of the handler
FrontCallBinds ==
    \/ /\ req.op = "fastmcp"
       /\ req.tool \in RegisteredTools
       /\ Binds(req.tool, req.args.kv)
    \/ /\ req.op = "mcp"
       /\ req.body = "object"
       /\ req.method = "tools/call"
       /\ NamesRegistered
       /\ req.arguments.t = "map"
       /\ Binds(req.tool, req.arguments.kv)
\* the function of the tool module was entered
ToolEntered == \E i \in 1..Len(ev) : ev[i] = Impl(req.tool)
\* C21: each front-end handler passes to the function of the tool module
\* only keyword arguments it accepts: a call of one of the five registered
\* tools whose arguments bind to the handler enters the tool's function, and
\* the adapter itself never turns it into an internal error (-32603).
C21_HandlerReachesTool ==
    (FrontCallBinds /\ Done) => ToolEntered

\* the keyword arguments of a front-end call
FrontKv == IF req.op = "mcp" THEN req.arguments.kv ELSE req.args.kv
\* C22: a book_hotel call through a front-end that gives a non-empty value
\* for every parameter the front-end schema requires (hotel_offer_id and
\* the four guest fields), with the credentials configured and a provider
\* that grants the token, returns the booking links and no missing-field
\* error.
C22_BookHotelRequiredSuffices ==
    (/\ FrontCallBinds /\ Done
     /\ req.tool = "book_hotel"
     /\ \A k \in RequiredParams("book_hotel") : FrontKv[k].t = "str" /\ Truthy(FrontKv[k])
     /\ AmadeusConfigured(env)
     /\ answers.token = "200_token")
        => /\ Returned
           /\ res.status = "ready_to_book"
           /\ res.data = "booking_links"

\* get_bus_schedule is called without a line number: the arguments of
\* execute have no line_number (and an urban type, given or by default), or
\* a front-end call leaves line_number out
NoLineNumber ==
    /\ req.tool = "get_bus_schedule"
    /\ \/ /\ req.op = "execute"
          /\ req.args.kv.line_number = Absent
          /\ req.args.kv.type \in {Absent, StrV(<<"urban">>)}
       \/ /\ FrontCallBinds
          /\ FrontKv.line_number = Absent
\* C23: get_bus_schedule without a line number lists all urban lines with
\* status success, both when execute gets arguments without line_number and
\* when a front-end gets a call that leaves line_number out.
C23_NoLineListsAllLines ==
    Done /\ NoLineNumber =>
        /\ Returned
        /\ res.status = "success"
        /\ res.data = "urban_all"

\* what calculate_next_departures gives the urban_line branch for the line
\* asked for, at the time the clock showed
NextBuses ==
    LET line == SOTRACO_LINES(req.args.kv.line_number.s)
        frequency == IF get_current_time_category(answers.now) = "peak" THEN line.frequency_peak
                     ELSE line.frequency_offpeak
    IN  calculate_next_departures(answers.now, line.first_departure, line.last_departure, frequency, 3)
\* C24: for the first departure, last departure and frequency of every line
\* and for every current time, calculate_next_departures ends without
\* raising and returns a list of one to count departures, each a time from
\* the first to the last departure or the first departure marked as
\* tomorrow.
C24_DeparturesComputed ==
    (Done /\ req.op = "execute" /\ OnlyLineNumber) =>
        LET line == SOTRACO_LINES(req.args.kv.line_number.s)
        IN  /\ NextBuses.kind = "ok"
            /\ Len(NextBuses.list) \in 1..3
            /\ \A i \in 1..Len(NextBuses.list) :
                  \/ line.first_departure <= NextBuses.list[i] /\ NextBuses.list[i] <= line.last_departure
                  \/ NextBuses.list[i] = line.first_departure + Tomorrow

\* the city a supported name stands for: a full name for itself, a short
\* form for the full name the definition of the tool gives
CityMeant(name) ==
    CASE name = <<"Ouaga">> -> Ouagadougou
      [] name = <<"Bobo">>  -> BoboDioulasso
      [] name = <<"Fada">>  -> FadaNGourma
      [] OTHER              -> name
\* C25: for each supported city given by its full name (Ouagadougou,
\* Bobo-Dioulasso, Koudougou, Ouahigouya, Banfora, Fada N'Gourma) or by a
\* short form (Ouaga, Bobo, Fada), the normalization of the city name
\* resolves to that city, so that the data looked up is that city's and not
\* the default of Ouagadougou.
C25_SupportedCityResolved ==
    (/\ Done /\ req.op = "execute" /\ req.tool = "find_pharmacy"
     /\ req.args.kv.city.t = "str"
     /\ req.args.kv.city.s \in PharmacyCities \cup {<<"Ouaga">>, <<"Bobo">>, <<"Fada">>})
        => get_local_pharmacies(req.args.kv.city).city = CityMeant(req.args.kv.city.s)

\* the numbers the call of a tool sent to its provider, each with the range
\* the definition of the tool documents for it
SentNumbers ==
    CASE req.tool = "search_flights" /\ HttpFlightOffers \in Range(ev) ->
            {<<Clamp(Arg("adults", IntV(1)), 1, 9).n, 1, 9>>,
             <<Clamp(Arg("max_results", IntV(5)), 1, 10).n, 1, 10>>}
      [] req.tool = "search_hotels" /\ HttpHotelList \in Range(ev) ->
            {<<Clamp(Arg("adults", IntV(1)), 1, 9).n, 1, 9>>,
             <<Clamp(Arg("rooms", IntV(1)), 1, 9).n, 1, 9>>,
             <<Clamp(Arg("max_results", IntV(10)), 1, 20).n, 1, 20>>}
      [] req.tool = "search_places" /\ HttpAzureFuzzy \in Range(ev) ->
            {<<MinInt(Arg("max_results", IntV(5)), 10).n, 1, 10>>}
      [] OTHER -> {}
\* C26: for every parameter with a documented numeric range the value sent
\* to the provider lies within the range, for every integer the caller
\* passes, zero, negative and very large values included.
C26_SentWithinRange ==
    (Done /\ req.op = "execute" /\ req.args.t = "map") =>
        \A s \in SentNumbers : s[2] <= s[1] /\ s[1] <= s[3]

\* the description with its runs of whitespace collapsed
Collapsed == Join(Split(desc.text))
\* the prefix of length k ends where a word ends (the empty prefix too)
EndsAtWordBoundary(s, k) ==
    \/ k = 0
    \/ /\ s[k] # " "
       /\ k = Len(s) \/ s[k + 1] = " "
\* the longest prefix of s that ends at a word boundary at or before limit
LongestWordPrefix(s, limit) ==
    LET k == CHOOSE k \in 0..limit :
                 /\ EndsAtWordBoundary(s, k)
                 /\ \A j \in (k + 1)..limit : ~EndsAtWordBoundary(s, j)
    IN  SubSeq(s, 1, k)
\* C27: the truncation returns the collapsed text unchanged when its length
\* is within the limit, and otherwise the longest prefix that ends at a word
\* boundary at or before the limit, followed by the ellipsis.
C27_CutAtWordBoundary ==
    desc.pc = "done" =>
        IF Len(Collapsed) <= desc.max_length
        THEN desc.result = Collapsed
        ELSE desc.result = LongestWordPrefix(Collapsed, desc.max_length) \o Ellipsis

\* the keys of the properties of a parameters dict
PropertyKeys(params) == [i \in 1..Len(params.properties) |-> params.properties[i].key]
\* two function dicts differ in their description fields only
SameButDescriptions(full, compact) ==
    /\ compact.name = full.name
    /\ PropertyKeys(compact.parameters) = PropertyKeys(full.parameters)
    /\ \A i \in 1..Len(full.parameters.properties) :
          LET was == full.parameters.properties[i].value
              is == compact.parameters.properties[i].value
          IN  /\ is.type = was.type
              /\ is.default = was.default
              /\ is.enum = was.enum
              /\ is.properties = was.properties
    /\ compact.parameters.required = full.parameters.required
\* C28: the compact variant of a tool definition differs from the full
\* nested definition in its description fields only: the name, the names of
\* the parameters, the type, default, enum and nested properties of each
\* parameter and the required list are unchanged.
C28_CompactKeepsStructure ==
    defs.pc \in {"compact", "realtime"} =>
        \A i \in 1..Len(defs.raw) :
            SameButDescriptions(FormattedTools(defs.raw)[i].function, defs.formatted[i].function)

\* C29: the truncation of a description is idempotent for its limit, so the
\* description of a tool in the Realtime format, which truncates the
\* compact description once more at the same limit, equals its description
\* in the compact format.
C29_RealtimeDescriptionIsCompact ==
    defs.pc = "realtime" =>
        \A i \in 1..Len(defs.formatted) :
            defs.again[i].description = defs.formatted[i].function.description

\* C30: the execute function of each tool catches its own failures: for
\* every arguments mapping, optional arguments that are null, of the wrong
\* type or not parsable as a number included, execute returns a dict and no
\* exception leaves the tool.
C30_ExecuteNeverRaises ==
    (Done /\ req.op = "execute" /\ req.args.t = "map") =>
        /\ Returned
        /\ res.kind # "raise"

====
